---- MODULE Spec2Model ----
(***************************************************************************)
(* The MediaProxy dispatcher (mediaproxy/dispatcher.py) as a state machine. *)
(*                                                                         *)
(* The dispatcher runs on one reactor thread: every handler runs to        *)
(* completion before the next one starts, so one action is one reactor     *)
(* callback (a line received on a relay connection, a timer firing, a      *)
(* request arriving from OpenSIPS, a connection being made or lost)        *)
(* together with every Deferred callback that fires synchronously inside   *)
(* it.  The relays and OpenSIPS are the environment: they may send any     *)
(* line at any time.                                                       *)
(*                                                                         *)
(* A handler is an operator from the program state to the program state  *)
(* it leaves, which also carries, in `out', what the handler wrote to the  *)
(* outside: replies to OpenSIPS, the statistics handed to the Dispatcher,  *)
(* the records passed on to accounting, end_dialog calls, and the          *)
(* Deferreds of relay commands that it fired.                              *)
(***************************************************************************)
EXTENDS Integers, Sequences, FiniteSets, TLC

(* ------------------------------ bounds -------------------------------- *)
\* relay connections accepted over the life of the process
MaxConn == 2
\* requests received from OpenSIPS
MaxReq == 2
\* `expired' lines that reach a session
MaxExpired == 1
\* starts of the dispatcher after the first one
MaxStart == 2
\* connections OpenSIPS opens over the life of the process
MaxProt == 2
\* lines OpenSIPS sends before the blank line that ends a request
MaxLines == 2

\* relay addresses (protocol.ip), call-ids and the answer a relay gives
Addrs == {"A", "B"}
CallIds == {"x", "y"}
Bodies == {"sdp"}
None == "None"
\* the dialog_id header of the updates OpenSIPS sends for a call-id: the
\* updates for x carry one, those for any other call-id carry none
DialogOf(c) == IF c = "x" THEN "dx" ELSE None
DialogIds == {DialogOf(c) : c \in CallIds} \ {None}

(* --------------------------- dictionaries ----------------------------- *)
Put(f, k, v) == [x \in DOMAIN f \cup {k} |-> IF x = k THEN v ELSE f[x]]
Del(f, k) == [x \in DOMAIN f \ {k} |-> f[x]]
Empty == [x \in {} |-> None]
Values(f) == {f[x] : x \in DOMAIN f}
\* the orders in which a dictionary with keys S may be iterated
Orders(S) ==
  {o \in [1..Cardinality(S) -> S] : \A i, j \in DOMAIN o : i # j => o[i] # o[j]}

(* ------------------------------ state --------------------------------- *)
VARIABLES
  sessions,        \* RelayFactory.sessions: call_id -> RelaySession
  relays,          \* RelayFactory.relays: ip -> connection
  cleanup_timers,  \* RelayFactory.cleanup_timers: ip -> timer
  shutting_down,   \* RelayFactory.shutting_down
  state_file,      \* the pickled dispatcher_state file
  conns,           \* the RelayServerProtocol objects, by identity
  nconn,           \* connections accepted so far
  nreq,            \* requests received so far
  nexpired,        \* `expired' lines that reached a session so far
  running,         \* the dispatcher process is running
  nstart,          \* starts of the dispatcher after the first one
  protocols,       \* the OpenSIPSControlProtocol objects, by identity
  control_shutting_down,  \* OpenSIPSControlFactory.shutting_down
  lists            \* the DeferredLists of get_summary and get_statistics

vars == <<sessions, relays, cleanup_timers, shutting_down, state_file, conns,
          nconn, nreq, nexpired, running, nstart, protocols, control_shutting_down,
          lists>>

\* What a handler named op has written before it does anything.
NoOut(op) ==
  [op |-> op, replies |-> <<>>, stats |-> <<>>, acct |-> <<>>,
   end_dialogs |-> [d \in DialogIds |-> 0], fired |-> <<>>, management |-> <<>>]

\* The program state as one record, which handler op transforms.
World(op) ==
  [sessions |-> sessions, relays |-> relays, cleanup_timers |-> cleanup_timers,
   shutting_down |-> shutting_down, state_file |-> state_file, conns |-> conns,
   lists |-> lists, out |-> NoOut(op)]

(* ----------------------- RelayServerProtocol -------------------------- *)
\* an identity no live RelayServerProtocol has
FreeSlot ==
  [ip |-> None, st |-> "free", authenticated |-> FALSE, halting |-> FALSE,
   timedout |-> FALSE, disconnect_timer |-> "none", sequence_number |-> 0,
   commands |-> Empty, replaced |-> FALSE]

\* RelayFactory.buildProtocol and RelayServerProtocol.__init__
NewProtocol(ip) == [FreeSlot EXCEPT !.ip = ip, !.st = "open"]

\* RelayServerProtocol.active
Active(c) == ~c.halting /\ ~c.timedout

\* send_command without `self.sequence_number += 1': the next command gets
\* the same number again.
SendCommand_SameNumber(w, k, cmd) ==
  [w EXCEPT !.conns[k].commands = Put(@, w.conns[k].sequence_number, cmd)]

\* RelayServerProtocol.send_command: the command is stored under the next
\* sequence number with its Deferred (cmd.cb and the data its callbacks
\* hold) and its timeout timer.
SendCommand(w, k, cmd) ==
  LET c == w.conns[k] IN
  [w EXCEPT !.conns[k] =
     [c EXCEPT !.commands = Put(c.commands, c.sequence_number, cmd),
               !.sequence_number = c.sequence_number + 1]]

\* A command and its Deferred.  cb names the callbacks added to the
\* Deferred: "purge" (new_relay), "place" (send_command for an update with no
\* live session: _relay_error, _add_session and the reply), "pinned" (the
\* reply alone) or "gather" (an entry of a DeferredList).  try_relays is the
\* deque the "place" callbacks share; list names the DeferredList of a
\* "gather" command and the relay the entry is for.
Cmd(name, call_id, dialog_id, cb, try_relays) ==
  [name |-> name, call_id |-> call_id, dialog_id |-> dialog_id, cb |-> cb,
   try_relays |-> try_relays, list |-> [id |-> 0, ip |-> None]]

\* The command get_summary or get_statistics sends to the relay at ip, as
\* an entry of DeferredList id.
GatherCmd(name, id, ip) ==
  [Cmd(name, None, None, "gather", <<>>) EXCEPT !.list = [id |-> id, ip |-> ip]]

(* --------------------------- ControlProtocol -------------------------- *)
\* ControlProtocol.reply / _error_handler: one line written to OpenSIPS in
\* answer to the request cmd came from.
Reply(w, cmd, line) ==
  [w EXCEPT !.out.replies =
     Append(@, [name |-> cmd.name, call_id |-> cmd.call_id, line |-> line])]

(* ----------------------------- RelayFactory --------------------------- *)
\* RelaySession.__init__; expire_time is kept as set (TRUE) or None (FALSE)
NewSession(ip, dialog_id) ==
  [relay_ip |-> ip, dialog_id |-> dialog_id, expire_time |-> FALSE]

\* RelayFactory._try_next
TryNext(w, cmd) ==
  IF cmd.try_relays = <<>>
  THEN Reply(w, cmd, "error")
  ELSE SendCommand(w, Head(cmd.try_relays), cmd)

\* RelayFactory._relay_error
RelayError(w, cmd) ==
  TryNext(w, [cmd EXCEPT !.try_relays = Tail(@)])

\* _add_session pinning the session to the last relay of try_relays rather
\* than to the one that answered.
AddSession_LastCandidate(w, cmd, result) ==
  Reply([w EXCEPT !.sessions =
           Put(@, cmd.call_id,
               NewSession(w.conns[cmd.try_relays[Len(cmd.try_relays)]].ip,
                          cmd.dialog_id))],
        cmd, result)

\* RelayFactory._add_session, then the reply to OpenSIPS
AddSession(w, cmd, result) ==
  Reply([w EXCEPT !.sessions =
           Put(@, cmd.call_id,
               NewSession(w.conns[Head(cmd.try_relays)].ip, cmd.dialog_id))],
        cmd, result)

\* opensips_management.end_dialog
EndDialog(w, dialog_id) == [w EXCEPT !.out.end_dialogs[dialog_id] = @ + 1]

\* PurgeDropped without the test of expire_time: an expired session that the
\* relay no longer lists is dropped too.
PurgeDropped_ExpiredToo(w, ip, ids) ==
  {c \in DOMAIN w.sessions : w.sessions[c].relay_ip = ip /\ c \notin ids}

\* RelayFactory._cb_purge_sessions: the sessions it drops
PurgeDropped(w, ip, ids) ==
  {c \in DOMAIN w.sessions :
     /\ ~w.sessions[c].expire_time
     /\ w.sessions[c].relay_ip = ip
     /\ c \notin ids}

\* RelayFactory._cb_purge_sessions
CbPurgeSessions(w, ip, ids) ==
  LET gone == PurgeDropped(w, ip, ids) IN
  [w EXCEPT !.sessions = [c \in DOMAIN @ \ gone |-> @[c]],
            !.out.end_dialogs = [d \in DOMAIN @ |->
               @[d] + Cardinality({c \in gone : w.sessions[c].dialog_id = d})]]

(* ------------------- get_summary and get_statistics ------------------- *)
\* The relays get_summary and get_statistics iterate over, were they only
\* the active ones.
FanOut_ActiveOnly(w) == {ip \in DOMAIN w.relays : Active(w.conns[w.relays[ip]])}

\* `self.relays.iteritems()' / `self.relays.itervalues()': the relays a
\* summary or sessions request goes to, by address.
FanOut(w) == DOMAIN w.relays

\* An entry of a DeferredList that has not fired yet, and one that has: the
\* pair (succeeded, result) the DeferredList keeps for it.
Waiting == [done |-> FALSE, succeeded |-> FALSE, result |-> "none"]
Result(succeeded, result) == [done |-> TRUE, succeeded |-> succeeded, result |-> result]

\* RelayFactory._summary_error: the failure becomes the result
\* {"status": "error", "ip": ip}.
SummaryError(ip) == "error_status"

\* The result a relay's answer `rest' is for the DeferredList: the text of
\* the line, of which the model keeps whether it is '[]'.
ResultOf(rest) ==
  IF rest.kind = "list" THEN (IF rest.ids = {} THEN "[]" ELSE "[sessions]")
  ELSE rest.body

\* ControlProtocol.reply on the management connection: one line, the JSON
\* array whose items are `items', each with the relay it came from, written
\* by the callback of DeferredList id.
ManagementReply(w, id, name, items) ==
  [w EXCEPT !.out.management =
     Append(@, [list |-> id, name |-> name, items |-> items])]

\* The items of the array: the results of the entries `order' that pass.
RECURSIVE Joined(_, _, _)
Joined(order, results, passes) ==
  IF order = <<>> THEN <<>>
  ELSE LET ip == Head(order)
           rest == Joined(Tail(order), results, passes)
       IN IF ip \in passes
          THEN <<[ip |-> ip, result |-> results[ip].result]>> \o rest
          ELSE rest

\* RelayFactory._got_summaries
GotSummaries(order, results) ==
  Joined(order, results, {ip \in DOMAIN results : results[ip].succeeded})

\* RelayFactory._got_statistics
GotStatistics(order, results) ==
  Joined(order, results,
         {ip \in DOMAIN results : results[ip].succeeded /\ results[ip].result # "[]"})

\* DeferredList: it fires when every one of its entries has fired.
DeferredListDone(results) == \A ip \in DOMAIN results : results[ip].done

\* DeferredList._cbDeferred: the entry of cmd fired with (succeeded, result).
\* When the DeferredList fires, _got_summaries or _got_statistics builds the
\* line and the management connection writes it.
Gathered(w, cmd, succeeded, result) ==
  LET id == cmd.list.id
      l == w.lists[id]
      results == [l.results EXCEPT ![cmd.list.ip] = Result(succeeded, result)]
  IN IF DeferredListDone(results)
     THEN ManagementReply([w EXCEPT !.lists = Del(@, id)], id, l.name,
                          IF l.name = "summary" THEN GotSummaries(l.order, results)
                          ELSE GotStatistics(l.order, results))
     ELSE [w EXCEPT !.lists[id].results = results]

\* The list comprehension of get_summary / get_statistics: send_command on
\* each relay, in the order the dictionary yields them.
RECURSIVE SendAll(_, _, _, _)
SendAll(w, name, id, order) ==
  IF order = <<>> THEN w
  ELSE SendAll(SendCommand(w, w.relays[Head(order)], GatherCmd(name, id, Head(order))),
               name, id, Tail(order))

\* get_summary (name = "summary") and get_statistics (name = "sessions"):
\* the DeferredList `id' over the commands sent.  A DeferredList of no
\* entries fires at once.
Gather(w, name, id, order) ==
  IF order = <<>> THEN ManagementReply(w, id, name, <<>>)
  ELSE SendAll([w EXCEPT !.lists =
                  Put(@, id, [name |-> name, order |-> order,
                              results |-> [i \in {order[n] : n \in DOMAIN order}
                                             |-> Waiting]])],
               name, id, order)

GetSummary(w, id, order) == Gather(w, "summary", id, order)

GetStatistics(w, id, order) == Gather(w, "sessions", id, order)

(* ------------------- Deferred callbacks and errbacks ------------------ *)
\* defer.callback / defer.errback: the Deferred of the relay command cmd fires
Fired(w, cmd) == [w EXCEPT !.out.fired = Append(@, cmd)]

\* What OpenSIPS reads when the relay's answer `rest' is passed on unchanged.
RestLine(rest) == IF rest.kind = "text" THEN rest.body ELSE "json"

\* The callback chain of the Deferred of cmd, fired on connection k with
\* the relay's answer: _cb_purge_sessions for the probe of new_relay (a body
\* cjson cannot decode raises inside the callback and changes nothing),
\* _add_session and reply for an initial placement, reply for a pinned
\* command, the DeferredList for an entry of it.
Callback(w, k, cmd, rest, line) ==
  LET w1 == Fired(w, cmd) IN
  CASE cmd.cb = "purge" ->
         IF rest.kind = "list" THEN CbPurgeSessions(w1, w.conns[k].ip, rest.ids) ELSE w1
    [] cmd.cb = "place" -> AddSession(w1, cmd, line)
    [] cmd.cb = "gather" -> Gathered(w1, cmd, TRUE, ResultOf(rest))
    [] OTHER -> Reply(w1, cmd, line)

\* The errback chain, fired with a RelayError: nothing for the probe (the
\* failure is only logged), _relay_error for an initial placement,
\* _error_handler for a pinned command; for an entry of get_summary
\* _summary_error turns the failure into a result, for an entry of
\* get_statistics the DeferredList keeps the failure.
Errback(w, cmd) ==
  LET w1 == Fired(w, cmd) IN
  CASE cmd.cb = "purge" -> w1
    [] cmd.cb = "place" -> RelayError(w1, cmd)
    [] cmd.cb = "gather" ->
         IF cmd.name = "summary"
         THEN Gathered(w1, cmd, TRUE, SummaryError(cmd.list.ip))
         ELSE Gathered(w1, cmd, FALSE, "failure")
    [] OTHER -> Reply(w1, cmd, "error")

\* RelayFactory._save_state
SaveState(w) == [w EXCEPT !.state_file = [exists |-> TRUE, data |-> w.sessions]]

\* connection_lost looking the relay up by its address rather than by its
\* identity.
FactoryConnectionLost_ByAddress(w, k) ==
  LET c == w.conns[k]
      w1 == IF c.authenticated THEN [w EXCEPT !.relays = Del(@, c.ip)] ELSE w
  IN
  IF c.ip \notin DOMAIN w.relays THEN w
  ELSE IF w.shutting_down
       THEN IF DOMAIN w1.relays = {} THEN SaveState(w1) ELSE w1
       ELSE [w1 EXCEPT !.cleanup_timers = Put(@, c.ip, "active")]

\* RelayFactory.connection_lost
FactoryConnectionLost(w, k) ==
  LET c == w.conns[k]
      w1 == IF c.authenticated THEN [w EXCEPT !.relays = Del(@, c.ip)] ELSE w
  IN
  IF k \notin Values(w.relays) THEN w
  ELSE IF w.shutting_down
       THEN IF DOMAIN w1.relays = {} THEN SaveState(w1) ELSE w1
       ELSE [w1 EXCEPT !.cleanup_timers = Put(@, c.ip, "active")]

\* The loop of RelayServerProtocol.connectionLost over self.commands, in the
\* order `order' of the dictionary's keys: each Deferred gets its errback.
RECURSIVE FailAll(_, _, _)
FailAll(w, k, order) ==
  IF order = <<>> THEN w
  ELSE FailAll(Errback(w, w.conns[k].commands[Head(order)]), k, Tail(order))

\* RelayServerProtocol.connectionLost.  The entries stay in self.commands
\* with fired Deferreds and cancelled timers; nothing reads them again, so
\* the model drops them.
ProtocolConnectionLost(w, k, order) ==
  LET w1 == FailAll(w, k, order)
      c == w1.conns[k]
      w2 == [w1 EXCEPT !.conns[k] =
               [c EXCEPT !.commands = Empty,
                         !.timedout = FALSE,
                         !.disconnect_timer =
                            IF c.timedout THEN "none" ELSE c.disconnect_timer]]
  IN FactoryConnectionLost(w2, k)

\* transport.connectionLost: the transport closes and tells the protocol,
\* once; a second call on a closed transport returns at once.
TransportConnectionLost(w, k, order) ==
  IF w.conns[k].st = "closed" THEN w
  ELSE ProtocolConnectionLost([w EXCEPT !.conns[k].st = "closed"], k, order)

(* ------------------------- object lifetime ---------------------------- *)
\* Connection k is named in the try_relays of a pending command.
Referenced(w, k) ==
  \E j \in DOMAIN w.conns : \E s \in DOMAIN w.conns[j].commands :
     \E i \in DOMAIN w.conns[j].commands[s].try_relays :
        w.conns[j].commands[s].try_relays[i] = k

\* A closed RelayServerProtocol that no timer, no deque and no dictionary
\* refers to can never be reached again: its identity is free for the next
\* connection.
Garbage(w, k) ==
  /\ w.conns[k].st = "closed"
  /\ w.conns[k].commands = Empty
  /\ w.conns[k].disconnect_timer # "active"
  /\ ~w.conns[k].replaced
  /\ ~Referenced(w, k)

Collect(w) ==
  [w EXCEPT !.conns = [k \in DOMAIN @ |-> IF Garbage(w, k) THEN FreeSlot ELSE @[k]]]

\* What the handler that produced w leaves of the RelayFactory and its
\* connections.
CommitFactory(w) ==
  /\ sessions' = w.sessions
  /\ relays' = w.relays
  /\ cleanup_timers' = w.cleanup_timers
  /\ shutting_down' = w.shutting_down
  /\ state_file' = w.state_file
  /\ conns' = Collect(w).conns
  /\ lists' = w.lists

\* The state after the handler that produced w: a handler runs in a running
\* process and leaves it running.
Commit(w) ==
  /\ running
  /\ UNCHANGED <<running, nstart, protocols, control_shutting_down>>
  /\ CommitFactory(w)

(* ------------------------ OpenSIPSControlProtocol ---------------------- *)
\* an identity no OpenSIPSControlProtocol has had yet
NoProtocol == [st |-> "free", in_progress |-> 0, request_lines |-> 0, waiting |-> <<>>]

(* ------------------------------- Init --------------------------------- *)
\* A first start: no dispatcher_state file, so RelayFactory.__init__ leaves
\* sessions and cleanup_timers empty.
Init ==
  /\ sessions = Empty
  /\ relays = Empty
  /\ cleanup_timers = Empty
  /\ shutting_down = FALSE
  /\ state_file = [exists |-> FALSE, data |-> Empty]
  /\ conns = [k \in 1..MaxConn |-> FreeSlot]
  /\ nconn = 0
  /\ nreq = 0
  /\ nexpired = 0
  /\ running = TRUE
  /\ nstart = 0
  /\ protocols = [p \in 1..MaxProt |-> NoProtocol]
  /\ control_shutting_down = FALSE
  /\ lists = Empty

(* -------------------- a relay connects: connectionMade ----------------- *)
\* new_relay leaving the cleanup timer of the address pending.
NewRelay_KeepsTimer(w, k) ==
  LET ip == w.conns[k].ip
      old == IF ip \in DOMAIN w.relays THEN w.relays[ip] ELSE 0
      w1 == IF old # 0 THEN [w EXCEPT !.conns[old].replaced = TRUE] ELSE w
      w2 == [w1 EXCEPT !.relays = Put(@, ip, k)]
  IN SendCommand(w2, k, Cmd("sessions", None, None, "purge", <<>>))

\* RelayFactory.new_relay
NewRelay(w, k) ==
  LET ip == w.conns[k].ip
      old == IF ip \in DOMAIN w.relays THEN w.relays[ip] ELSE 0
      w1 == IF old # 0 THEN [w EXCEPT !.conns[old].replaced = TRUE] ELSE w
      w2 == [w1 EXCEPT !.relays = Put(@, ip, k),
                       !.cleanup_timers = Del(@, ip)]
  IN SendCommand(w2, k, Cmd("sessions", None, None, "purge", <<>>))

\* RelayServerProtocol.connectionMade; accept is the verdict of
\* DispatcherConfig.passport on the peer certificate.
ProtocolConnectionMade(w, k, accept) ==
  IF accept
  THEN NewRelay([w EXCEPT !.conns[k].authenticated = TRUE], k)
  ELSE [w EXCEPT !.conns[k].st = "closing"]

\* A relay connects from ip.  The listener is closed before
\* RelayFactory.shutdown runs (Dispatcher._shutdown).
ConnectionMade(ip, accept) ==
  /\ ~shutting_down
  /\ nconn < MaxConn
  /\ nconn' = nconn + 1
  /\ UNCHANGED <<nreq, nexpired>>
  /\ \E k \in DOMAIN conns :
       /\ conns[k].st = "free"
       /\ \A j \in DOMAIN conns : conns[j].st = "free" => k <= j
       /\ Commit(ProtocolConnectionMade(
             [World("connectionMade") EXCEPT !.conns[k] = NewProtocol(ip)], k, accept))

\* new_relay schedules the teardown of the connection it replaces with
\* callLater(0, ...): the reactor runs it before it polls the sockets again,
\* so no line, no close and no relay_timeout of connection k, which has just
\* replaced another one, comes before that teardown.
AwaitsTeardown(k) ==
  /\ ~conns[k].replaced
  /\ \E j \in DOMAIN conns : j # k /\ conns[j].replaced /\ conns[j].ip = conns[k].ip

(* --------------- a line from a relay: lineReceived --------------------- *)
\* The `rest' of a response line `<seq> <rest>', by what lineReceived and the
\* callbacks make of it: the words error and halting, a JSON object with
\* call_id and start_time (the statistics a relay sends for a remove), a JSON
\* list of sessions (ids: their call-ids), or any other text.
Rest(kind, body, call_id, start_time, ids) ==
  [kind |-> kind, body |-> body, call_id |-> call_id, start_time |-> start_time,
   ids |-> ids]

\* The answers the relays are taken to give to a command of each name.
RestsFor(name) ==
  {Rest("error", "error", None, FALSE, {}), Rest("halting", "halting", None, FALSE, {})}
  \cup (IF name = "remove"
        THEN {Rest("stats", "json", c, s, {}) : c \in CallIds, s \in BOOLEAN}
             \cup {Rest("text", "junk", None, FALSE, {})}
        ELSE IF name = "sessions"
        THEN {Rest("list", "json", None, FALSE, ids) : ids \in SUBSET CallIds}
             \cup {Rest("text", "junk", None, FALSE, {})}
        ELSE IF name = "summary"
        THEN {Rest("text", "json", None, FALSE, {})}
        ELSE {Rest("text", b, None, FALSE, {}) : b \in Bodies})

\* Dispatcher.update_statistics: the statistics (out.stats) reach the
\* accounting modules (out.acct) only when they have a start_time.
UpdateStatistics(w, call_id, dialog_id, timed_out, all_streams_ice, start_time) ==
  LET stats == [call_id |-> call_id, dialog_id |-> dialog_id,
                timed_out |-> timed_out, all_streams_ice |-> all_streams_ice]
      w1 == [w EXCEPT !.out.stats = Append(@, [stats |-> stats, start_time |-> start_time])]
  IN IF start_time THEN [w1 EXCEPT !.out.acct = Append(@, stats)] ELSE w1

\* TimedOut when every expired line counts as a timeout.
TimedOut_Always(all_streams_ice) == TRUE

\* lines 255-260: stats['timed_out']
TimedOut(all_streams_ice) == ~all_streams_ice

\* ExpiredLine without the test of session.relay_ip: an expired line from
\* any relay ends the session.
ExpiredLine_FromAnyRelay(w, k, c, ice, start_time) ==
  IF c \notin DOMAIN w.sessions THEN w
  ELSE LET session == w.sessions[c]
           w1 == UpdateStatistics(w, c, session.dialog_id, TimedOut(ice),
                                  IF ice THEN "true" ELSE "false", start_time)
       IN IF session.dialog_id # None /\ start_time /\ ~ice
          THEN [EndDialog(w1, session.dialog_id)
                  EXCEPT !.sessions[c].expire_time = TRUE]
          ELSE [w1 EXCEPT !.sessions = Del(@, c)]

\* ExpiredLine without the test of session.dialog_id: a session that has no
\* dialog is marked expired too, and kept for the remove.
ExpiredLine_MarksWithoutDialog(w, k, c, ice, start_time) ==
  IF c \notin DOMAIN w.sessions THEN w
  ELSE LET session == w.sessions[c]
           w1 == UpdateStatistics(w, c, session.dialog_id, TimedOut(ice),
                                  IF ice THEN "true" ELSE "false", start_time)
       IN IF session.relay_ip # w.conns[k].ip THEN w
          ELSE IF start_time /\ ~ice
               THEN [(IF session.dialog_id # None
                      THEN EndDialog(w1, session.dialog_id) ELSE w1)
                       EXCEPT !.sessions[c].expire_time = TRUE]
               ELSE [w1 EXCEPT !.sessions = Del(@, c)]

\* lineReceived, first == 'expired', for a payload cjson decodes: call_id c,
\* ice = every stream has status 'unselected ICE candidate', start_time
\* present or null.
ExpiredLine(w, k, c, ice, start_time) ==
  IF c \notin DOMAIN w.sessions THEN w
  ELSE LET session == w.sessions[c]
           w1 == UpdateStatistics(w, c, session.dialog_id, TimedOut(ice),
                                  IF ice THEN "true" ELSE "false", start_time)
       IN IF session.relay_ip # w.conns[k].ip THEN w
          ELSE IF session.dialog_id # None /\ start_time /\ ~ice
               THEN [EndDialog(w1, session.dialog_id)
                       EXCEPT !.sessions[c].expire_time = TRUE]
               ELSE [w1 EXCEPT !.sessions = Del(@, c)]

\* the line reaches a session: lines 254-268 run
ExpiredReaches(w, k, c) ==
  c \in DOMAIN w.sessions /\ w.sessions[c].relay_ip = w.conns[k].ip

LineExpired(k, c, ice, start_time) ==
  /\ conns[k].st = "open"
  /\ ~AwaitsTeardown(k)
  /\ ExpiredReaches(World("expired"), k, c) => nexpired < MaxExpired
  /\ Commit(ExpiredLine(World("expired"), k, c, ice, start_time))
  /\ nexpired' = IF ExpiredReaches(World("expired"), k, c) THEN nexpired + 1 ELSE nexpired
  /\ UNCHANGED <<nconn, nreq>>

\* The ping clearing timedout without cancelling the disconnect timer.
PingLine_KeepsTimer(w, k) ==
  IF w.conns[k].timedout THEN [w EXCEPT !.conns[k].timedout = FALSE] ELSE w

\* lineReceived, first == 'ping'
PingLine(w, k) ==
  IF w.conns[k].timedout
  THEN [w EXCEPT !.conns[k] = [@ EXCEPT !.timedout = FALSE, !.disconnect_timer = "none"]]
  ELSE w

LinePing(k) ==
  /\ conns[k].st = "open"
  /\ ~AwaitsTeardown(k)
  /\ UNCHANGED <<nconn, nreq, nexpired>>
  /\ Commit(PingLine(World("ping"), k))

\* lineReceived for a response, after self.commands.pop(first) and
\* timer.cancel(): cmd is the popped command.
\* RemoveResponse without `del self.factory.sessions[call_id]'.
RemoveResponse_KeepsSession(w, rest) ==
  IF rest.kind = "stats"
  THEN UpdateStatistics(w, rest.call_id, w.sessions[rest.call_id].dialog_id, FALSE,
                        "absent", rest.start_time)
  ELSE w

\* lines 290-300: the answer to a remove.  A body cjson cannot decode is
\* logged and changes nothing.
RemoveResponse(w, rest) ==
  IF rest.kind = "stats"
  THEN LET session == w.sessions[rest.call_id]
           w1 == UpdateStatistics(w, rest.call_id, session.dialog_id, FALSE,
                                  "absent", rest.start_time)
       IN [w1 EXCEPT !.sessions = Del(@, rest.call_id)]
  ELSE w

ResponseLine(w, k, cmd, rest) ==
  IF rest.kind = "error" THEN Errback(w, cmd)
  ELSE IF rest.kind = "halting"
  THEN Errback([w EXCEPT !.conns[k].halting = TRUE], cmd)
  ELSE IF cmd.name = "remove"
  THEN Callback(RemoveResponse(w, rest), k, cmd, rest, "removed")
  ELSE Callback(w, k, cmd, rest, RestLine(rest))

\* self.factory.sessions[call_id] raises KeyError when the relay's statistics
\* name a call-id that has no session.
ResponseRaises(w, cmd, rest) ==
  /\ rest.kind = "stats"
  /\ cmd.name = "remove"
  /\ rest.call_id \notin DOMAIN w.sessions

\* self.commands.pop(first)
Popped(w, k, seq) == [w EXCEPT !.conns[k].commands = Del(@, seq)]

\* lineReceived for the line `<seq> <rest>' with seq pending, when nothing
\* raises
Response(w, k, seq, rest) ==
  ResponseLine(Popped(w, k, seq), k, w.conns[k].commands[seq], rest)

\* lineReceived for the line `<seq> <rest>' with seq pending, up to where it
\* returns or raises: when it raises, the command is popped, its timer
\* cancelled and its Deferred not fired.
LineReceivedResponse(w, k, seq, rest) ==
  IF ResponseRaises(Popped(w, k, seq), w.conns[k].commands[seq], rest)
  THEN Popped(w, k, seq)
  ELSE Response(w, k, seq, rest)

\* A response `<seq> <rest>' for a pending seq (any other seq is logged and
\* dropped).  When the handler raises, the command is already popped and its
\* Deferred never fires; the exception reaches the reactor, which logs it and
\* drops the connection (lost = TRUE) or keeps it, depending on the reactor.
LineResponse(k, seq) ==
  /\ conns[k].st = "open"
  /\ ~AwaitsTeardown(k)
  /\ UNCHANGED <<nconn, nreq, nexpired>>
  /\ seq \in DOMAIN conns[k].commands
  /\ LET cmd == conns[k].commands[seq]
         w == Popped(World("response"), k, seq)
     IN \E rest \in RestsFor(cmd.name) :
          IF ResponseRaises(w, cmd, rest)
          THEN \E lost \in BOOLEAN, order \in Orders(DOMAIN w.conns[k].commands) :
                 Commit(IF lost THEN TransportConnectionLost(w, k, order) ELSE w)
          ELSE Commit(Response(World("response"), k, seq, rest))

(* ------------------------------ timers -------------------------------- *)
\* _timeout without the grace period: the waiter fails and the connection
\* stays a candidate.
TimeoutFired_NoGrace(w, k, seq) ==
  Errback(Popped(w, k, seq), w.conns[k].commands[seq])

\* RelayServerProtocol._timeout, when the relay_timeout timer of seq fires
TimeoutFired(w, k, seq) ==
  LET cmd == w.conns[k].commands[seq]
      w1 == Errback(Popped(w, k, seq), cmd)
  IN IF ~w1.conns[k].timedout
     THEN [w1 EXCEPT !.conns[k] = [@ EXCEPT !.timedout = TRUE,
                                           !.disconnect_timer = "active"]]
     ELSE w1

Timeout(k, seq) ==
  /\ seq \in DOMAIN conns[k].commands
  /\ ~AwaitsTeardown(k)
  /\ UNCHANGED <<nconn, nreq, nexpired>>
  /\ Commit(TimeoutFired(World("timeout"), k, seq))

\* The relay_recover_interval timer fires: transport.connectionLost with
\* TCPTimedOutError.
DisconnectTimerFired(w, k, order) ==
  TransportConnectionLost([w EXCEPT !.conns[k].disconnect_timer = "fired"], k, order)

DisconnectTimer(k) ==
  /\ conns[k].disconnect_timer = "active"
  /\ UNCHANGED <<nconn, nreq, nexpired>>
  /\ \E order \in Orders(DOMAIN conns[k].commands) :
       Commit(DisconnectTimerFired(World("disconnect_timer"), k, order))

\* The callLater(0, old_relay.transport.connectionLost, ConnectionReplaced)
\* scheduled by new_relay fires.
ReplacedTeardown(k) ==
  /\ conns[k].replaced
  /\ UNCHANGED <<nconn, nreq, nexpired>>
  /\ \E order \in Orders(DOMAIN conns[k].commands) :
       Commit(TransportConnectionLost(
                [World("replaced") EXCEPT !.conns[k].replaced = FALSE], k, order))

\* The transport reports the connection closed: the peer closed it, the
\* network failed, or a loseConnection of the dispatcher completed.
ConnectionLost(k) ==
  /\ conns[k].st \in {"open", "closing"}
  /\ ~AwaitsTeardown(k)
  /\ UNCHANGED <<nconn, nreq, nexpired>>
  /\ \E order \in Orders(DOMAIN conns[k].commands) :
       Commit(TransportConnectionLost(World("connectionLost"), k, order))

\* _do_cleanup sparing the sessions that are expired.
DoCleanupFired_KeepsExpired(w, ip) ==
  [w EXCEPT !.cleanup_timers = Del(@, ip),
            !.sessions = [c \in {x \in DOMAIN @ : @[x].relay_ip # ip \/ @[x].expire_time}
                            |-> @[c]]]

\* RelayFactory._do_cleanup, when the cleanup_dead_relays_after timer fires
DoCleanupFired(w, ip) ==
  [w EXCEPT !.cleanup_timers = Del(@, ip),
            !.sessions = [c \in {x \in DOMAIN @ : @[x].relay_ip # ip} |-> @[c]]]

DoCleanup(ip) ==
  /\ ip \in DOMAIN cleanup_timers
  /\ UNCHANGED <<nconn, nreq, nexpired>>
  /\ cleanup_timers[ip] = "active"
  /\ Commit(DoCleanupFired(World("do_cleanup"), ip))

\* RelayFactory._remove_expired_sessions, every 600 s.  expire_time is kept
\* as set / not set, so which expired sessions are older than
\* cleanup_expired_sessions_after is the input `obsolete'.
RemoveExpiredSessions(obsolete) ==
  /\ obsolete # {}
  /\ UNCHANGED <<nconn, nreq, nexpired>>
  /\ obsolete \subseteq {c \in DOMAIN sessions : sessions[c].expire_time}
  /\ Commit([World("remove_expired") EXCEPT
               !.sessions = [c \in DOMAIN @ \ obsolete |-> @[c]]])

(* -------------------- a request from OpenSIPS -------------------------- *)
\* the deque built at line 396, before the shuffle
OtherActive(w, preferred) ==
  {k \in Values(w.relays) : Active(w.conns[k]) /\ w.conns[k].ip # preferred}

\* Live without the test of expire_time: an expired session is routed to
\* like a live one.
Live_IgnoresExpiry(w, call_id) == call_id \in DOMAIN w.sessions

\* `session and session.expire_time is None' (line 388)
Live(w, call_id) ==
  call_id \in DOMAIN w.sessions /\ ~w.sessions[call_id].expire_time

\* Pinned falling back on any registered relay when the relay of the session
\* is not connected.
Pinned_FallsBack(w, cmd) ==
  LET relay == w.sessions[cmd.call_id].relay_ip IN
  IF relay \in DOMAIN w.relays THEN SendCommand(w, w.relays[relay], cmd)
  ELSE IF DOMAIN w.relays = {} THEN Reply(w, cmd, "error")
  ELSE SendCommand(w, CHOOSE k \in Values(w.relays) : TRUE, cmd)

\* lines 389-392: the command goes to the relay of its session
Pinned(w, cmd) ==
  LET relay == w.sessions[cmd.call_id].relay_ip IN
  IF relay \notin DOMAIN w.relays
  THEN Reply(w, cmd, "error")
  ELSE SendCommand(w, w.relays[relay], cmd)

\* Preferred without the test of protocol.active: a registered relay that
\* is halting or timed out is still tried first.
Preferred_IgnoresActive(w, preferred) ==
  IF preferred \in DOMAIN w.relays THEN <<w.relays[preferred]>> ELSE <<>>

\* lines 398-403: what appendleft puts in front of try_relays
Preferred(w, preferred) ==
  IF preferred \in DOMAIN w.relays /\ Active(w.conns[w.relays[preferred]])
  THEN <<w.relays[preferred]>> ELSE <<>>

\* RelayFactory.send_command; shuffled is what random.shuffle leaves in
\* try_relays.
FactorySendCommand(w, name, call_id, dialog_id, preferred, shuffled) ==
  \* only _add_session reads the dialog_id header
  LET pinned == Cmd(name, call_id, None, "pinned", <<>>) IN
  IF Live(w, call_id)
  THEN Pinned(w, pinned)
  ELSE IF name = "update"
  THEN TryNext(w, Cmd(name, call_id, dialog_id, "place",
                      Preferred(w, preferred) \o shuffled))
  ELSE IF name = "remove" /\ call_id \in DOMAIN w.sessions
  THEN Reply([w EXCEPT !.sessions = Del(@, call_id)], pinned, "removed")
  ELSE Reply(w, pinned, "error")

\* OpenSIPSControlProtocol.handle_request for a block with a call_id header.
\* The OpenSIPS connections are closed before RelayFactory.shutdown runs.
Request(name, call_id, dialog_id, media_relay) ==
  /\ nreq < MaxReq
  /\ ~shutting_down
  /\ nreq' = nreq + 1
  /\ UNCHANGED <<nconn, nexpired>>
  /\ \E shuffled \in Orders(OtherActive(World("request"), media_relay)) :
       Commit(FactorySendCommand(World("request"), name, call_id, dialog_id,
                                 media_relay, shuffled))

(* ----------------------------- shutdown -------------------------------- *)
\* RelayFactory.shutdown: loseConnection on every registered relay; the
\* transport stops reading and reports the close later.
FactoryShutdown(w) ==
  LET w1 == [w EXCEPT !.shutting_down = TRUE,
                      !.cleanup_timers = [ip \in DOMAIN @ |-> "cancelled"]]
  IN IF DOMAIN w.relays = {}
     THEN SaveState(w1)
     ELSE [w1 EXCEPT !.conns = [k \in DOMAIN @ |->
              IF k \in Values(w.relays) /\ @[k].st = "open"
              THEN [@[k] EXCEPT !.st = "closing"] ELSE @[k]]]

Shutdown ==
  /\ ~shutting_down
  /\ UNCHANGED <<nconn, nreq, nexpired>>
  /\ Commit(FactoryShutdown(World("shutdown")))

(* ------------------------------- Next ---------------------------------- *)
Conns == DOMAIN conns

Next ==
  \/ \E ip \in Addrs, accept \in BOOLEAN : ConnectionMade(ip, accept)
  \/ \E k \in Conns, c \in CallIds, ice \in BOOLEAN, start_time \in BOOLEAN :
       LineExpired(k, c, ice, start_time)
  \/ \E k \in Conns : LinePing(k)
  \/ \E k \in Conns, seq \in 0..MaxReq : LineResponse(k, seq)
  \/ \E k \in Conns, seq \in 0..MaxReq : Timeout(k, seq)
  \/ \E k \in Conns : DisconnectTimer(k)
  \/ \E k \in Conns : ReplacedTeardown(k)
  \/ \E k \in Conns : ConnectionLost(k)
  \/ \E ip \in Addrs : DoCleanup(ip)
  \/ \E obsolete \in SUBSET CallIds : RemoveExpiredSessions(obsolete)
  \/ \E call_id \in CallIds, media_relay \in {None} \cup Addrs :
       Request("update", call_id, DialogOf(call_id), media_relay)
  \/ \E call_id \in CallIds : Request("remove", call_id, None, None)
  \/ Shutdown

Spec == Init /\ [][Next]_vars

(* ---------------------- the management interface ---------------------- *)
\* ManagementControlProtocol.lineReceived for the lines summary and
\* sessions; order is the order in which self.relays yields its entries.
\* ManagementControlFactory.shutdown closes the management connections
\* before RelayFactory.shutdown runs.
ManagementLineReceived(w, line, id, order) ==
  IF line = "summary" THEN GetSummary(w, id, order) ELSE GetStatistics(w, id, order)

ManagementLine(line) ==
  /\ nreq < MaxReq
  /\ ~shutting_down
  /\ nreq' = nreq + 1
  /\ UNCHANGED <<nconn, nexpired>>
  /\ \E order \in Orders(FanOut(World("management"))) :
       Commit(ManagementLineReceived(World("management"), line, nreq + 1, order))

NextManagement ==
  \/ \E ip \in Addrs, accept \in BOOLEAN : ConnectionMade(ip, accept)
  \/ \E k \in Conns : LinePing(k)
  \/ \E k \in Conns, seq \in 0..MaxReq : LineResponse(k, seq)
  \/ \E k \in Conns, seq \in 0..MaxReq : Timeout(k, seq)
  \/ \E k \in Conns : DisconnectTimer(k)
  \/ \E k \in Conns : ReplacedTeardown(k)
  \/ \E k \in Conns : ConnectionLost(k)
  \/ \E ip \in Addrs : DoCleanup(ip)
  \/ \E line \in {"summary", "sessions"} : ManagementLine(line)
  \/ Shutdown

SpecManagement == Init /\ [][NextManagement]_vars

(* ------------------- the connections of OpenSIPS ---------------------- *)
\* ControlFactory.protocols: the protocols built and not lost
Attached_(ps) == {p \in DOMAIN ps : ps[p].st \in {"open", "closing"}}

\* ControlProtocol._decrement, after the reply is written
Decrement(prot, shutting) ==
  [prot EXCEPT !.in_progress = 0,
               !.st = IF shutting /\ @ = "open" THEN "closing" ELSE @]

\* OpenSIPSControlProtocol.lineReceived.  line is "blank", "colon" (a line
\* that ends with ': ') or "text"; request_lines is kept as the number of
\* lines buffered.  For the blank line that ends a request, answered tells
\* whether the Deferred of handle_request has fired when _add_callbacks adds
\* the callbacks (a CommandError, a RelayError raised by the router, the
\* 'removed' of an expired session) or is waiting for a relay; id names the
\* request.
ControlLineReceived(prot, line, shutting, answered, id) ==
  IF line = "blank"
  THEN IF prot.request_lines = 0 THEN prot
       ELSE LET p1 == [prot EXCEPT !.in_progress = @ + 1, !.request_lines = 0] IN
            IF answered THEN Decrement(p1, shutting)
            ELSE [p1 EXCEPT !.waiting = Append(@, id)]
  ELSE IF line = "colon" THEN prot
  ELSE [prot EXCEPT !.request_lines = @ + 1]

\* the sequence s without its i-th element
Without(s, i) == SubSeq(s, 1, i - 1) \o SubSeq(s, i + 1, Len(s))

\* ControlFactory.buildProtocol: OpenSIPS connects; the listener is closed
\* before ControlFactory.shutdown runs.
ControlConnectionMade(p) ==
  /\ running
  /\ ~control_shutting_down
  /\ protocols[p].st = "free"
  /\ \A q \in DOMAIN protocols : q < p => protocols[q].st # "free"
  /\ protocols' = [protocols EXCEPT ![p].st = "open"]
  /\ UNCHANGED <<sessions, relays, cleanup_timers, shutting_down, state_file, conns, lists,
                 nconn, nreq, nexpired, running, nstart, control_shutting_down>>

\* A line from OpenSIPS on connection p.
ControlLine(p, line, answered) ==
  /\ running
  /\ protocols[p].st = "open"
  /\ line = "text" => protocols[p].request_lines < MaxLines
  /\ (line = "blank" /\ protocols[p].request_lines > 0) => nreq < MaxReq
  /\ protocols' = [protocols EXCEPT ![p] =
        ControlLineReceived(@, line, control_shutting_down, answered, nreq + 1)]
  /\ nreq' = IF line = "blank" /\ protocols[p].request_lines > 0 THEN nreq + 1 ELSE nreq
  /\ UNCHANGED <<sessions, relays, cleanup_timers, shutting_down, state_file, conns, lists,
                 nconn, nexpired, running, nstart, control_shutting_down>>

\* The Deferred of the i-th request waiting on connection p fires: the
\* callbacks of _add_callbacks write the reply and run _decrement.
DeferredFires(p, i) ==
  /\ running
  /\ i \in DOMAIN protocols[p].waiting
  /\ protocols' = [protocols EXCEPT ![p] =
        Decrement([@ EXCEPT !.waiting = Without(@, i)], control_shutting_down)]
  /\ UNCHANGED <<sessions, relays, cleanup_timers, shutting_down, state_file, conns, lists,
                 nconn, nreq, nexpired, running, nstart, control_shutting_down>>

\* The rest of the chain of Dispatcher._shutdown once the Deferred of
\* opensips_factory.shutdown has fired: management_factory.shutdown (no
\* management connection is open) and relay_factory.shutdown.
RelayFactoryShutdown ==
  IF shutting_down
  THEN UNCHANGED <<sessions, relays, cleanup_timers, shutting_down, state_file, conns, lists>>
  ELSE CommitFactory(FactoryShutdown(World("shutdown")))

\* ControlProtocol.connectionLost and ControlFactory.connection_lost: the
\* transport of p reports the close (OpenSIPS closed, or a loseConnection
\* completed).  The Deferreds still waiting on p write to a closed transport
\* when they fire; the model drops them with the protocol.
ControlConnectionLost(p) ==
  /\ running
  /\ protocols[p].st \in {"open", "closing"}
  /\ protocols' = [protocols EXCEPT ![p] = [NoProtocol EXCEPT !.st = "closed"]]
  /\ IF control_shutting_down /\ Attached_(protocols') = {}
     THEN RelayFactoryShutdown
     ELSE UNCHANGED <<sessions, relays, cleanup_timers, shutting_down, state_file, conns, lists>>
  /\ UNCHANGED <<nconn, nreq, nexpired, running, nstart, control_shutting_down>>

\* ControlFactory.shutdown, called by Dispatcher._shutdown once the
\* listeners are closed
ControlShutdown ==
  /\ running
  /\ ~control_shutting_down
  /\ control_shutting_down' = TRUE
  /\ IF Attached_(protocols) = {}
     THEN protocols' = protocols /\ RelayFactoryShutdown
     ELSE /\ protocols' = [p \in DOMAIN protocols |->
                IF protocols[p].st = "open" /\ protocols[p].in_progress = 0
                THEN [protocols[p] EXCEPT !.st = "closing"] ELSE protocols[p]]
          /\ UNCHANGED <<sessions, relays, cleanup_timers, shutting_down, state_file, conns, lists>>
  /\ UNCHANGED <<nconn, nreq, nexpired, running, nstart>>

Prots == DOMAIN protocols

NextIngress ==
  \/ \E p \in Prots : ControlConnectionMade(p)
  \/ \E p \in Prots, line \in {"blank", "colon", "text"}, answered \in BOOLEAN :
       ControlLine(p, line, answered)
  \/ \E p \in Prots, i \in 1..MaxReq : DeferredFires(p, i)
  \/ \E p \in Prots : ControlConnectionLost(p)
  \/ ControlShutdown

SpecIngress == Init /\ [][NextIngress]_vars

(* ------------------------ the process ends and starts ------------------ *)
\* RelayFactory.__init__ without unlink(state_file)
RelayFactoryInit_KeepsFile(w) ==
  LET loaded == IF w.state_file.exists THEN w.state_file.data ELSE Empty IN
  [w EXCEPT !.sessions = loaded,
            !.relays = Empty,
            !.shutting_down = FALSE,
            !.cleanup_timers =
               [ip \in {loaded[c].relay_ip : c \in DOMAIN loaded} |-> "active"]]

\* RelayFactory.__init__: the table is unpickled from the dispatcher_state
\* file when there is one (and each relay named in it gets a cleanup timer),
\* it is empty otherwise; the file is unlinked.
RelayFactoryInit(w) ==
  LET loaded == IF w.state_file.exists THEN w.state_file.data ELSE Empty IN
  [w EXCEPT !.sessions = loaded,
            !.relays = Empty,
            !.shutting_down = FALSE,
            !.cleanup_timers =
               [ip \in {loaded[c].relay_ip : c \in DOMAIN loaded} |-> "active"],
            !.state_file = [exists |-> FALSE, data |-> Empty]]

\* What is left of a process that has ended: the dispatcher_state file.
Ended(w) ==
  [w EXCEPT !.sessions = Empty, !.relays = Empty, !.cleanup_timers = Empty,
            !.shutting_down = FALSE,
            !.conns = [k \in DOMAIN @ |-> FreeSlot],
            !.lists = Empty]

\* The state after the process has ended or started.
Restarted(w, r) ==
  /\ running' = r
  /\ UNCHANGED <<protocols, control_shutting_down>>
  /\ sessions' = w.sessions
  /\ relays' = w.relays
  /\ cleanup_timers' = w.cleanup_timers
  /\ shutting_down' = w.shutting_down
  /\ state_file' = w.state_file
  /\ conns' = w.conns
  /\ lists' = w.lists
  /\ UNCHANGED <<nconn, nreq, nexpired>>

\* Dispatcher._stop: the callback after _save_state in the chain of
\* Dispatcher._shutdown stops the reactor, and the process exits.
Exit ==
  /\ running
  /\ shutting_down
  /\ state_file.exists
  /\ UNCHANGED nstart
  /\ Restarted(Ended(World("exit")), FALSE)

\* The process is killed or dies, at any moment.
Crash ==
  /\ running
  /\ UNCHANGED nstart
  /\ Restarted(Ended(World("crash")), FALSE)

\* Dispatcher.__init__ in a new process
Start ==
  /\ ~running
  /\ nstart < MaxStart
  /\ nstart' = nstart + 1
  /\ Restarted(RelayFactoryInit(World("start")), TRUE)

NextRestart == Next \/ Exit \/ Crash \/ Start

SpecRestart == Init /\ [][NextRestart]_vars

(* ======================= properties of the dispatcher ================== *)
\* The program state before a handler runs.  A property of a handler is
\* stated on what the handler, applied to a reachable state, returns: the
\* state it leaves and, in `out', what it wrote.
Now == World("now")

\* the requests OpenSIPS may send: the media_relay header and the shuffle
MediaRelays == {None} \cup Addrs
Shuffles(preferred) == Orders(OtherActive(Now, preferred))

\* connection k was sent exactly one more command by the handler that left
\* w, and no other connection was sent anything
SentOnlyTo(w, k) ==
  /\ \A j \in DOMAIN conns : j # k => w.conns[j] = conns[j]
  /\ w.conns[k] = [conns[k] EXCEPT
       !.commands = w.conns[k].commands,
       !.sequence_number = conns[k].sequence_number + 1]
  /\ DOMAIN w.conns[k].commands =
       DOMAIN conns[k].commands \cup {conns[k].sequence_number}
  /\ \A s \in DOMAIN conns[k].commands : w.conns[k].commands[s] = conns[k].commands[s]

\* the command the handler that left w sent to k
Sent(w, k) == w.conns[k].commands[conns[k].sequence_number]

\* the handler that left w answered OpenSIPS with the one line `line'
Answered(w, line) ==
  Len(w.out.replies) = 1 /\ w.out.replies[1].line = line

\* the handler that left w wrote nothing to accounting or to OpenSIPS
Silent(w) ==
  /\ w.out.acct = <<>>
  /\ \A d \in DialogIds : w.out.end_dialogs[d] = 0

(* ------------------------------- C1 ------------------------------------ *)
\* C1: from the moment a session entry for a call-id is recorded until the
\* entry is removed, its relay_ip never changes, whatever the interleaving
\* of requests, responses and relay events (several updates for one unknown
\* call-id in flight on different relays included).
C1_RelayAddrNeverChanges ==
  [][\A c \in DOMAIN sessions \cap DOMAIN sessions' :
       sessions'[c].relay_ip = sessions[c].relay_ip]_vars

(* ------------------------------- C2 ------------------------------------ *)
\* an update placed for call-id c is answered on connection k in this step,
\* and _add_session has recorded the session it makes
PlacedNow(c) ==
  \E k \in DOMAIN conns : \E s \in DOMAIN conns[k].commands :
     LET cmd == conns[k].commands[s] IN
     /\ cmd.cb = "place" /\ cmd.name = "update" /\ cmd.call_id = c
     /\ s \notin DOMAIN conns'[k].commands
     /\ sessions'[c] = NewSession(conns[k].ip, cmd.dialog_id)

\* a request for call-id c contacts no relay
NoRelayContacted(name, c) ==
  \A preferred \in MediaRelays : \A shuffled \in Shuffles(preferred) :
     FactorySendCommand(Now, name, c, DialogOf(c), preferred, shuffled).conns = conns

\* a remove for call-id c drops the entry and answers 'removed', and no relay
\* is contacted
RemovedAtOnce(c) ==
  LET w == FactorySendCommand(Now, "remove", c, None, None, <<>>) IN
  /\ w.conns = conns
  /\ c \notin DOMAIN w.sessions
  /\ \A d \in DOMAIN sessions \ {c} : d \in DOMAIN w.sessions /\ w.sessions[d] = sessions[d]
  /\ Answered(w, "removed")
  /\ Silent(w)

\* C2 as the specification states it: a session whose expire_time is set
\* stays the same entry or disappears, no command for its call-id is
\* forwarded to a relay, and a remove drops it and answers 'removed' without
\* contacting a relay.
C2_ExpiredIsTerminal ==
  /\ [][\A c \in DOMAIN sessions : sessions[c].expire_time =>
          (c \notin DOMAIN sessions' \/ sessions'[c] = sessions[c])]_vars
  /\ [](\A c \in DOMAIN sessions : sessions[c].expire_time =>
          /\ NoRelayContacted("update", c)
          /\ NoRelayContacted("remove", c)
          /\ RemovedAtOnce(c))

\* C2, amended: a session whose expire_time is set stays the same entry or
\* disappears, unless an update for its call-id is answered successfully by
\* a relay, which replaces it by a fresh session pinned to that relay; an
\* update for the call-id is handled as an initial placement (it leaves the
\* entry alone and goes to a candidate relay, or fails when there is none);
\* a remove drops the entry and answers 'removed' without contacting a relay.
C2_ExpiredTerminalButForUpdate ==
  /\ [][\A c \in DOMAIN sessions : sessions[c].expire_time =>
          \/ c \notin DOMAIN sessions'
          \/ sessions'[c] = sessions[c]
          \/ PlacedNow(c)]_vars
  /\ [](\A c \in DOMAIN sessions : sessions[c].expire_time =>
          /\ NoRelayContacted("remove", c)
          /\ RemovedAtOnce(c)
          /\ \A preferred \in MediaRelays : \A shuffled \in Shuffles(preferred) :
               LET w == FactorySendCommand(Now, "update", c, DialogOf(c),
                                           preferred, shuffled)
                   try_relays == Preferred(Now, preferred) \o shuffled
               IN /\ w.sessions = sessions
                  /\ Silent(w)
                  /\ IF try_relays = <<>>
                     THEN w.conns = conns /\ Answered(w, "error")
                     ELSE /\ SentOnlyTo(w, Head(try_relays))
                          /\ Sent(w, Head(try_relays)).cb = "place"
                          /\ w.out.replies = <<>>)

\* an expired session whose relay is still registered: a remove for it is
\* answered at once, an update for it has a candidate relay
C2_Witness ==
  \E c \in DOMAIN sessions :
     /\ sessions[c].expire_time
     /\ ~shutting_down
     /\ sessions[c].relay_ip \in DOMAIN relays
     /\ Active(conns[relays[sessions[c].relay_ip]])
     /\ Answered(FactorySendCommand(Now, "remove", c, None, None, <<>>), "removed")

Placements ==
  {p \in (DOMAIN conns) \X (0..MaxReq) :
     /\ p[2] \in DOMAIN conns[p[1]].commands
     /\ conns[p[1]].commands[p[2]].cb = "place"}

\* the commands the handler that left w sent to connection j
NewCommands(w, j) == DOMAIN w.conns[j].commands \ DOMAIN conns[j].commands

\* the handler that left w took the commands `gone' out of the pending
\* tables and left every other pending command as it was
OnlyTook(w, gone) ==
  \A j \in DOMAIN conns : \A s \in DOMAIN conns[j].commands :
     IF <<j, s>> \in gone
     THEN s \notin DOMAIN w.conns[j].commands
     ELSE s \in DOMAIN w.conns[j].commands
          /\ w.conns[j].commands[s] = conns[j].commands[s]

\* candidate k of the placement p has answered with the body `line': one
\* session is recorded, pinned to k's address, and the body is returned
Succeeded(w, p, line) ==
  LET k == p[1]
      cmd == conns[k].commands[p[2]]
  IN /\ w.sessions = Put(sessions, cmd.call_id, NewSession(conns[k].ip, cmd.dialog_id))
     /\ Answered(w, line)
     /\ w.out.replies[1].call_id = cmd.call_id
     /\ Silent(w)
     /\ OnlyTook(w, {p})
     /\ \A j \in DOMAIN conns : NewCommands(w, j) = {}

\* candidate k of the placement p has failed: it is dropped and the command
\* goes to the next candidate, or fails when there is none; no session is
\* recorded
FailedOver(w, p) ==
  LET cmd == conns[p[1]].commands[p[2]]
      rest == Tail(cmd.try_relays)
  IN /\ w.sessions = sessions
     /\ Silent(w)
     /\ OnlyTook(w, {p})
     /\ IF rest = <<>>
        THEN /\ Answered(w, "error")
             /\ \A j \in DOMAIN conns : NewCommands(w, j) = {}
        ELSE /\ w.out.replies = <<>>
             /\ \A j \in DOMAIN conns :
                  NewCommands(w, j) =
                    IF j = Head(rest) THEN {conns[j].sequence_number} ELSE {}
             /\ Sent(w, Head(rest)) = [cmd EXCEPT !.try_relays = rest]

\* the connection of k closes with the commands cs pending: every placement
\* among them is dropped from k and sent to its next candidate or answered
\* with the error; no session is recorded
ClosedOver(w, k) ==
  LET mine == {p \in Placements : p[1] = k}
      last == {p \in mine : Len(conns[k].commands[p[2]].try_relays) = 1}
      pinned == {s \in DOMAIN conns[k].commands : conns[k].commands[s].cb = "pinned"}
  IN /\ w.sessions = sessions
     /\ Silent(w)
     /\ w.conns[k].commands = Empty
     /\ OnlyTook(w, {k} \X DOMAIN conns[k].commands)
     /\ Len(w.out.replies) = Cardinality(last) + Cardinality(pinned)
     /\ \A i \in DOMAIN w.out.replies : w.out.replies[i].line = "error"
     /\ \A j \in DOMAIN conns \ {k} :
          /\ Cardinality(NewCommands(w, j)) =
               Cardinality({p \in mine \ last :
                              conns[k].commands[p[2]].try_relays[2] = j})
          /\ \A s \in NewCommands(w, j) : \E p \in mine \ last :
               w.conns[j].commands[s] =
                 [conns[k].commands[p[2]] EXCEPT !.try_relays = Tail(@)]

\* C4: an update with no live session is tried on one candidate at a time,
\* in the order of its list: it is held by the head of the list; a candidate
\* that answers error or halting, times out or disconnects is dropped and
\* the next one is tried; the first success records exactly one session,
\* pinned to the relay that answered, and returns the relay's body; the
\* command fails with the error exactly when the list is or has become
\* empty, and then no session is recorded.
C4_Failover ==
  /\ \A p \in Placements :
       LET try_relays == conns[p[1]].commands[p[2]].try_relays IN
       /\ try_relays # <<>>
       /\ Head(try_relays) = p[1]
       /\ \A i, j \in DOMAIN try_relays : i # j => try_relays[i] # try_relays[j]
       /\ FailedOver(TimeoutFired(Now, p[1], p[2]), p)
       /\ conns[p[1]].st = "open" =>
            /\ \A b \in Bodies :
                 Succeeded(Response(Now, p[1], p[2], Rest("text", b, None, FALSE, {})), p, b)
            /\ FailedOver(Response(Now, p[1], p[2], Rest("error", "error", None, FALSE, {})), p)
            /\ FailedOver(Response(Now, p[1], p[2], Rest("halting", "halting", None, FALSE, {})), p)
  /\ \A k \in DOMAIN conns : conns[k].st \in {"open", "closing"} =>
       \A order \in Orders(DOMAIN conns[k].commands) :
          ClosedOver(TransportConnectionLost(Now, k, order), k)
  /\ \A c \in CallIds : ~Live(Now, c) =>
       \A preferred \in MediaRelays : \A shuffled \in Shuffles(preferred) :
          LET w == FactorySendCommand(Now, "update", c, DialogOf(c), preferred, shuffled)
              try_relays == Preferred(Now, preferred) \o shuffled
          IN /\ w.sessions = sessions
             /\ Silent(w)
             /\ IF try_relays = <<>>
                THEN w.conns = conns /\ Answered(w, "error")
                ELSE /\ SentOnlyTo(w, Head(try_relays))
                     /\ Sent(w, Head(try_relays)).try_relays = try_relays
                     /\ w.out.replies = <<>>

\* an update is pending on the first of two candidates, whose connection is
\* open and whose next candidate is open too: an error from the first sends
\* the command to the second
C4_Witness ==
  \E p \in Placements :
     LET cmd == conns[p[1]].commands[p[2]] IN
     /\ Len(cmd.try_relays) = 2
     /\ conns[p[1]].st = "open"
     /\ conns[cmd.try_relays[2]].st = "open"
     /\ NewCommands(Response(Now, p[1], p[2], Rest("error", "error", None, FALSE, {})),
                    cmd.try_relays[2]) # {}

(* ------------------------------- C5 ------------------------------------ *)
\* the registered connections that are active
ActiveRelays == {k \in Values(relays) : Active(conns[k])}

\* media_relay names a registered relay that is active
Available(R) == R \in DOMAIN relays /\ Active(conns[relays[R]])

\* C5: for an update with no live session and media_relay = R, the candidate
\* list holds every registered active relay exactly once, with R first when
\* R is registered and active, and without R when R is unknown or inactive;
\* the command goes to the first of the list, so the update is tried as long
\* as one other active relay is there.
C5_PreferredRelay ==
  \A c \in CallIds : ~Live(Now, c) =>
    \A R \in Addrs : \A shuffled \in Shuffles(R) :
      LET w == FactorySendCommand(Now, "update", c, DialogOf(c), R, shuffled) IN
      IF ActiveRelays = {}
      THEN w.conns = conns /\ Answered(w, "error")
      ELSE \E k \in ActiveRelays :
             /\ SentOnlyTo(w, k)
             /\ w.out.replies = <<>>
             /\ LET try_relays == Sent(w, k).try_relays IN
                /\ try_relays[1] = k
                /\ {try_relays[i] : i \in DOMAIN try_relays} = ActiveRelays
                /\ Len(try_relays) = Cardinality(ActiveRelays)
                /\ Available(R) => k = relays[R]
                /\ (R \in DOMAIN relays /\ ~Available(R)) =>
                     \A i \in DOMAIN try_relays : try_relays[i] # relays[R]

\* media_relay names a registered relay that is halting or timed out while
\* another relay is active: the update goes to the other relay
C5_Witness ==
  \E R \in DOMAIN relays : \E c \in CallIds :
     /\ ~Live(Now, c)
     /\ ~shutting_down
     /\ ~Available(R)
     /\ ActiveRelays # {}
     /\ \E k \in ActiveRelays :
          SentOnlyTo(FactorySendCommand(Now, "update", c, DialogOf(c), R, <<k>>), k)


(* ------------------------------- C6 ------------------------------------ *)
\* the removes that are pending on an open connection for a call-id that
\* has a session
Removes ==
  {p \in (DOMAIN conns) \X (0..MaxReq) :
     /\ conns[p[1]].st = "open"
     /\ p[2] \in DOMAIN conns[p[1]].commands
     /\ conns[p[1]].commands[p[2]].name = "remove"
     /\ conns[p[1]].commands[p[2]].call_id \in DOMAIN sessions}

\* the statistics record of a remove for the session of call-id c
RemoveRecord(c) ==
  [call_id |-> c, dialog_id |-> sessions[c].dialog_id, timed_out |-> FALSE,
   all_streams_ice |-> "absent"]

\* the handler that left w dropped the session of c and no other
Dropped(w, c) ==
  /\ c \notin DOMAIN w.sessions
  /\ \A d \in DOMAIN sessions \ {c} : d \in DOMAIN w.sessions /\ w.sessions[d] = sessions[d]

\* C6 as the specification states it: whatever the relay answers to the
\* remove, other than error and halting, once OpenSIPS is answered 'removed'
\* the session is gone and one record with timed_out = false and the
\* session's dialog_id has gone to accounting.
C6_RemoveAnyBody ==
  \A p \in Removes :
     LET c == conns[p[1]].commands[p[2]].call_id IN
     \A rest \in RestsFor("remove") :
        (rest.kind \notin {"error", "halting"} /\ rest.call_id \in {c, None}) =>
           LET w == Response(Now, p[1], p[2], rest) IN
           Answered(w, "removed") =>
              c \notin DOMAIN w.sessions /\ w.out.acct = <<RemoveRecord(c)>>

\* C6, amended: when the relay answers the remove with statistics that name
\* the call-id and have a start_time, OpenSIPS is answered 'removed', the
\* session is gone and exactly one record, with timed_out = false and the
\* session's dialog_id, has gone to accounting.  Statistics without a
\* start_time drop the session and send no record; a body that is not JSON
\* is answered 'removed' too, but the session stays and no record is sent.
C6_RemoveWithStatistics ==
  \A p \in Removes :
     LET c == conns[p[1]].commands[p[2]].call_id
         stats == Response(Now, p[1], p[2], Rest("stats", "json", c, TRUE, {}))
         nostart == Response(Now, p[1], p[2], Rest("stats", "json", c, FALSE, {}))
         junk == Response(Now, p[1], p[2], Rest("text", "junk", None, FALSE, {}))
     IN /\ Answered(stats, "removed")
        /\ Dropped(stats, c)
        /\ stats.out.acct = <<RemoveRecord(c)>>
        /\ Answered(nostart, "removed")
        /\ Dropped(nostart, c)
        /\ nostart.out.acct = <<>>
        /\ Answered(junk, "removed")
        /\ junk.sessions = sessions
        /\ junk.out.acct = <<>>
        /\ \A w \in {stats, nostart, junk} :
             /\ \A d \in DialogIds : w.out.end_dialogs[d] = 0
             /\ OnlyTook(w, {p})
             /\ \A j \in DOMAIN conns : NewCommands(w, j) = {}

\* a remove is pending at the relay of a live session that has a dialog_id:
\* statistics for it produce the record
C6_Witness ==
  \E p \in Removes :
     LET c == conns[p[1]].commands[p[2]].call_id IN
     /\ ~sessions[c].expire_time
     /\ sessions[c].dialog_id # None
     /\ sessions[c].relay_ip = conns[p[1]].ip
     /\ Response(Now, p[1], p[2], Rest("stats", "json", c, TRUE, {})).out.acct
          = <<RemoveRecord(c)>>

(* ------------------------------- C7 ------------------------------------ *)
\* the expired lines that reach a live session: connection k is open and the
\* session of c is pinned to its address
Expirations ==
  {e \in (DOMAIN conns) \X CallIds :
     /\ conns[e[1]].st = "open"
     /\ Live(Now, e[2])
     /\ sessions[e[2]].relay_ip = conns[e[1]].ip}

\* the statistics record of an expired line for the session of call-id c
ExpiredRecord(c, ice) ==
  [call_id |-> c, dialog_id |-> sessions[c].dialog_id, timed_out |-> ~ice,
   all_streams_ice |-> IF ice THEN "true" ELSE "false"]

\* the remove that follows the expired line: no record, no relay contacted,
\* no session left
ConfirmingRemove(c) ==
  LET w == FactorySendCommand(Now, "remove", c, None, None, <<>>) IN
  /\ Silent(w)
  /\ w.conns = conns
  /\ Dropped(w, c)
  /\ Answered(w, IF c \in DOMAIN sessions THEN "removed" ELSE "error")

\* C7 as the specification states it: the expired line sends exactly one
\* record to accounting, with timed_out true exactly when not every stream
\* is an unselected ICE candidate; the remove that follows sends none,
\* contacts no relay and leaves no session.
C7_ExpiredAlwaysRecorded ==
  /\ \A e \in Expirations : \A ice \in BOOLEAN, start_time \in BOOLEAN :
       ExpiredLine(Now, e[1], e[2], ice, start_time).out.acct
         = <<ExpiredRecord(e[2], ice)>>
  /\ \A c \in CallIds : ~Live(Now, c) => ConfirmingRemove(c)

\* C7, amended: the expired line sends exactly one record to accounting when
\* its payload has a start_time, and none when start_time is null; the
\* record has timed_out true exactly when not every stream is an unselected
\* ICE candidate.  The line leaves the session expired or drops it; the
\* remove that follows sends no record, contacts no relay and leaves no
\* session.
C7_ExpiredThenRemove ==
  /\ \A e \in Expirations : \A ice \in BOOLEAN, start_time \in BOOLEAN :
       LET w == ExpiredLine(Now, e[1], e[2], ice, start_time) IN
       /\ w.out.acct = IF start_time THEN <<ExpiredRecord(e[2], ice)>> ELSE <<>>
       /\ w.conns = conns
       /\ w.out.replies = <<>>
       /\ ~Live(w, e[2])
       /\ \A d \in DOMAIN sessions \ {e[2]} :
            d \in DOMAIN w.sessions /\ w.sessions[d] = sessions[d]
  /\ \A c \in CallIds : ~Live(Now, c) => ConfirmingRemove(c)

\* a live session with a dialog_id on an open relay: an expired line without
\* ICE marks it expired, and the remove that follows is answered 'removed'
C7_Witness ==
  \E e \in Expirations :
     LET w == ExpiredLine(Now, e[1], e[2], FALSE, TRUE) IN
     /\ ~shutting_down
     /\ e[2] \in DOMAIN w.sessions
     /\ w.sessions[e[2]].expire_time
     /\ w.out.acct = <<ExpiredRecord(e[2], FALSE)>>
     /\ Answered(FactorySendCommand(w, "remove", e[2], None, None, <<>>), "removed")


(* ------------------------------- C8 ------------------------------------ *)
\* the sessions pinned to address ip, expired or not
PinnedTo(ip) == {c \in DOMAIN sessions : sessions[c].relay_ip = ip}

\* the identity the next connection gets
NextSlot == CHOOSE k \in DOMAIN conns :
  conns[k].st = "free" /\ \A j \in DOMAIN conns : conns[j].st = "free" => k <= j

\* what connectionMade leaves when a relay whose certificate is accepted
\* connects from ip
Attached(ip) ==
  ProtocolConnectionMade([Now EXCEPT !.conns[NextSlot] = NewProtocol(ip)], NextSlot, TRUE)

\* C8: when the registered connection of a relay closes and the dispatcher
\* is not shutting down, a cleanup timer for its address is started and the
\* sessions stay; when the timer fires, every session pinned to the address,
\* expired or not, is dropped and no other, with no accounting record and no
\* end_dialog; when the relay connects again first, the timer is cancelled:
\* no address has a registered connection and a cleanup timer at once, so the
\* sweep does not run while the relay is connected.
C8_DeadRelaySweep ==
  /\ \A k \in Values(relays) : (~shutting_down /\ conns[k].st \in {"open", "closing"}) =>
       \A order \in Orders(DOMAIN conns[k].commands) :
          LET w == TransportConnectionLost(Now, k, order) IN
          /\ w.cleanup_timers = Put(cleanup_timers, conns[k].ip, "active")
          /\ conns[k].ip \notin DOMAIN w.relays
          /\ w.sessions = sessions
          /\ Silent(w)
  /\ \A ip \in DOMAIN cleanup_timers : cleanup_timers[ip] = "active" =>
       LET w == DoCleanupFired(Now, ip) IN
       /\ DOMAIN w.sessions = DOMAIN sessions \ PinnedTo(ip)
       /\ \A c \in DOMAIN w.sessions : w.sessions[c] = sessions[c]
       /\ Silent(w)
       /\ w.out.replies = <<>>
       /\ w.conns = conns
       /\ ip \notin DOMAIN w.cleanup_timers
  /\ \A ip \in Addrs : (\E k \in DOMAIN conns : conns[k].st = "free") =>
       /\ ip \notin DOMAIN Attached(ip).cleanup_timers
       /\ Attached(ip).sessions = sessions
       /\ Silent(Attached(ip))
  /\ \A ip \in DOMAIN relays : ip \notin DOMAIN cleanup_timers

\* the cleanup timer of a relay that is gone is running, with an expired and
\* a live session pinned to its address, and the relay can still reconnect
C8_Witness ==
  \E ip \in DOMAIN cleanup_timers :
     /\ cleanup_timers[ip] = "active"
     /\ \E c, d \in PinnedTo(ip) : sessions[c].expire_time /\ ~sessions[d].expire_time
     /\ \E k \in DOMAIN conns : conns[k].st = "free"
     /\ DOMAIN DoCleanupFired(Now, ip).sessions = DOMAIN sessions \ PinnedTo(ip)

(* ------------------------------- C9 ------------------------------------ *)
\* the connections in timed-out grace that can receive a line
InGrace == {k \in DOMAIN conns : conns[k].st = "open" /\ conns[k].timedout}

\* an update for a call-id without a live session, sent after the handler
\* that left w, is placed on connection k when media_relay names k's address,
\* and k's answer makes the session
PlacedOn(w, k) ==
  \A c \in CallIds : ~Live(w, c) =>
    \A shuffled \in Orders(OtherActive(w, w.conns[k].ip)) : \A b \in Bodies :
       LET seq == w.conns[k].sequence_number
           w1 == FactorySendCommand(w, "update", c, DialogOf(c), w.conns[k].ip, shuffled)
           w2 == Response(w1, k, seq, Rest("text", b, None, FALSE, {}))
       IN /\ seq \in DOMAIN w1.conns[k].commands
          /\ w1.conns[k].commands[seq].call_id = c
          /\ w1.out.replies = <<>>
          /\ w2.sessions = Put(sessions, c, NewSession(conns[k].ip, DialogOf(c)))
          /\ Answered(w2, b)

\* the ping cleared timed_out and cancelled the grace timer of k, and
\* changed nothing else
GraceEnded(w, k) ==
  /\ w = [Now EXCEPT !.conns[k].timedout = FALSE, !.conns[k].disconnect_timer = "none"]
  /\ conns[k].disconnect_timer = "active"

\* C9 as the specification states it, of the connections that are still
\* registered: a ping in timed-out grace clears timed_out and cancels the
\* grace timer; the connection is active again and an update for a new
\* call-id can be placed on it and succeeds.
C9_PingMakesActive ==
  \A k \in InGrace \cap Values(relays) :
     LET w == PingLine(Now, k) IN
     /\ GraceEnded(w, k)
     /\ Active(w.conns[k])
     /\ PlacedOn(w, k)

\* C9, amended: a ping in timed-out grace clears timed_out and cancels the
\* grace timer, so the forced disconnect does not happen; the connection is
\* active again unless the relay has announced that it is halting, and when
\* it is active and still the connection registered for its address, an
\* update for a new call-id can be placed on it and succeeds.
C9_PingEndsGrace ==
  \A k \in InGrace :
     LET w == PingLine(Now, k) IN
     /\ GraceEnded(w, k)
     /\ Active(w.conns[k]) <=> ~conns[k].halting
     /\ (~conns[k].halting /\ k \in Values(relays)) => PlacedOn(w, k)

\* a registered relay that is not halting is in timed-out grace, and was
\* not a candidate before the ping
C9_Witness ==
  \E k \in InGrace :
     /\ ~conns[k].halting
     /\ k \in Values(relays)
     /\ ~shutting_down
     /\ k \notin ActiveRelays
     /\ Active(PingLine(Now, k).conns[k])

(* ------------------------------- C10 ----------------------------------- *)
\* the connections new_relay has replaced and that wait for their teardown
Replaced == {j \in DOMAIN conns : conns[j].replaced}

\* the connections that are not, or no longer, the registered one of their
\* address
Unregistered ==
  {j \in DOMAIN conns : conns[j].st \in {"open", "closing"} /\ j \notin Values(relays)}

\* C10: from the attach of a connection that replaces another to the
\* teardown of the replaced one the registry has an entry for the address,
\* so a command for a live session pinned there goes to the registered
\* connection and is not answered with the error; attaching puts the new
\* connection in the registry in the same step; the close of a connection
\* that is not the registered one leaves the registry and the cleanup timers
\* as they are.
C10_ReplaceOnReconnect ==
  /\ \A j \in Replaced :
       /\ conns[j].ip \in DOMAIN relays
       /\ relays[conns[j].ip] # j
       /\ \A c \in PinnedTo(conns[j].ip) : Live(Now, c) =>
            \A name \in {"update", "remove"} :
               LET w == FactorySendCommand(Now, name, c, DialogOf(c), None, <<>>) IN
               /\ w.out.replies = <<>>
               /\ SentOnlyTo(w, relays[conns[j].ip])
       /\ \A order \in Orders(DOMAIN conns[j].commands) :
            LET w == TransportConnectionLost([Now EXCEPT !.conns[j].replaced = FALSE],
                                             j, order)
            IN w.relays = relays /\ w.cleanup_timers = cleanup_timers
  /\ \A j \in Unregistered : \A order \in Orders(DOMAIN conns[j].commands) :
       LET w == TransportConnectionLost(Now, j, order) IN
       w.relays = relays /\ w.cleanup_timers = cleanup_timers
  /\ \A ip \in DOMAIN relays : (\E k \in DOMAIN conns : conns[k].st = "free") =>
       /\ Attached(ip).relays = [relays EXCEPT ![ip] = NextSlot]
       /\ Attached(ip).conns[relays[ip]].replaced

\* a relay has connected again while its old connection is not torn down
\* yet, and a live session is pinned to its address
C10_Witness ==
  \E j \in Replaced :
     /\ conns[j].st = "open"
     /\ ~shutting_down
     /\ \E c \in PinnedTo(conns[j].ip) :
          /\ Live(Now, c)
          /\ FactorySendCommand(Now, "update", c, DialogOf(c), None, <<>>).out.replies = <<>>


(* ------------------------------- C11 ----------------------------------- *)
\* the probes of new_relay that are pending on an open connection
Probes ==
  {p \in (DOMAIN conns) \X (0..MaxReq) :
     /\ conns[p[1]].st = "open"
     /\ p[2] \in DOMAIN conns[p[1]].commands
     /\ conns[p[1]].commands[p[2]].cb = "purge"}

\* the sessions the relay at ip has lost: pinned to ip, not expired, and not
\* among the call-ids ids it lists
LostAt(ip, ids) ==
  {c \in DOMAIN sessions :
     sessions[c].relay_ip = ip /\ ~sessions[c].expire_time /\ c \notin ids}

\* C11: when the answer to the sessions probe sent on attach is processed,
\* the sessions dropped are exactly those pinned to that relay, not expired
\* and absent from the relay's list; the SIP proxy is asked to end the dialog
\* of each dropped session that has a dialog_id, and of no other; every other
\* session (pinned to another relay, expired, or listed) is unchanged.
C11_ProbeReconciles ==
  \A p \in Probes : \A ids \in SUBSET CallIds :
     LET w == Response(Now, p[1], p[2], Rest("list", "json", None, FALSE, ids))
         gone == LostAt(conns[p[1]].ip, ids)
     IN /\ DOMAIN w.sessions = DOMAIN sessions \ gone
        /\ \A c \in DOMAIN w.sessions : w.sessions[c] = sessions[c]
        /\ \A d \in DialogIds :
             w.out.end_dialogs[d] = Cardinality({c \in gone : sessions[c].dialog_id = d})
        /\ w.out.acct = <<>>
        /\ w.out.replies = <<>>
        /\ OnlyTook(w, {p})
        /\ \A j \in DOMAIN conns : NewCommands(w, j) = {}

\* a relay has attached again with two live sessions pinned to its address,
\* one of them with a dialog_id: when its list names only the other one, the
\* first is dropped and its dialog ended
C11_Witness ==
  \E p \in Probes : \E c, d \in DOMAIN sessions :
     /\ c # d
     /\ LostAt(conns[p[1]].ip, {d}) = {c}
     /\ sessions[d].relay_ip = conns[p[1]].ip /\ ~sessions[d].expire_time
     /\ sessions[c].dialog_id # None
     /\ Response(Now, p[1], p[2], Rest("list", "json", None, FALSE, {d}))
          .out.end_dialogs[sessions[c].dialog_id] = 1


(* ------------------------------- C12 ----------------------------------- *)
\* the handler that left w asked the SIP proxy to end dialog d once and no
\* other dialog
EndedOnly(w, d) ==
  \A e \in DialogIds : w.out.end_dialogs[e] = IF e = d THEN 1 ELSE 0

\* C12: an expired line for call-id c on connection k changes nothing and
\* writes nothing when c has no session or its session is pinned to another
\* relay.  Otherwise the statistics are handed on with timed_out true exactly
\* when not every stream is an unselected ICE candidate; when the session has
\* a dialog_id, the payload a start_time and not every stream is ICE, the SIP
\* proxy is asked to end the dialog and the session is kept with expire_time
\* set; in every other case the session is removed at once and the SIP proxy
\* is not asked.
C12_ExpiredEvent ==
  \A k \in DOMAIN conns : conns[k].st = "open" =>
    \A c \in CallIds, ice \in BOOLEAN, start_time \in BOOLEAN :
      LET w == ExpiredLine(Now, k, c, ice, start_time) IN
      IF c \notin DOMAIN sessions \/ sessions[c].relay_ip # conns[k].ip
      THEN w = Now
      ELSE /\ w.out.stats = <<[stats |-> ExpiredRecord(c, ice), start_time |-> start_time]>>
           /\ w.out.stats[1].stats.timed_out = ~ice
           /\ w.out.acct = IF start_time THEN <<ExpiredRecord(c, ice)>> ELSE <<>>
           /\ w.out.replies = <<>>
           /\ w.conns = conns
           /\ w.relays = relays /\ w.cleanup_timers = cleanup_timers
           /\ IF sessions[c].dialog_id # None /\ start_time /\ ~ice
              THEN /\ EndedOnly(w, sessions[c].dialog_id)
                   /\ w.sessions = [sessions EXCEPT ![c].expire_time = TRUE]
              ELSE /\ Dropped(w, c)
                   /\ \A d \in DialogIds : w.out.end_dialogs[d] = 0

\* two relays are connected and a live session with a dialog_id is pinned to
\* one of them: an expired line for it from the other relay is ignored, one
\* from its own relay without ICE marks it expired and ends the dialog
C12_Witness ==
  \E k, j \in DOMAIN conns : \E c \in DOMAIN sessions :
     /\ conns[k].st = "open" /\ conns[j].st = "open"
     /\ sessions[c].relay_ip = conns[k].ip
     /\ sessions[c].relay_ip # conns[j].ip
     /\ sessions[c].dialog_id # None
     /\ ~sessions[c].expire_time
     /\ ExpiredLine(Now, j, c, FALSE, TRUE) = Now
     /\ ExpiredLine(Now, k, c, FALSE, TRUE).sessions[c].expire_time
     /\ EndedOnly(ExpiredLine(Now, k, c, FALSE, TRUE), sessions[c].dialog_id)


(* ------------------------------- C13 ----------------------------------- *)
\* the connection objects that exist, and those that exist before and after
\* a step (an identity that is free stands for no object)
Objects == {k \in DOMAIN conns : conns[k].st # "free"}
Surviving == {k \in Objects : conns'[k].st # "free"}

\* C13: on every relay connection the sequence numbers are issued 0, 1, 2,
\* ... : the pending table holds only numbers already issued, each in-flight
\* request under its own number with its timeout timer (which, when it
\* fires, takes that entry out); a step that sends commands on a connection
\* stores them under the numbers from sequence_number on and moves
\* sequence_number past them, so no number is issued twice on a connection,
\* pending or not; a new connection starts at 0.
C13_SequenceNumbers ==
  /\ [](\A k \in DOMAIN conns :
          /\ conns[k].sequence_number \in Nat
          /\ \A s \in DOMAIN conns[k].commands :
               /\ s \in 0 .. conns[k].sequence_number - 1
               /\ s \notin DOMAIN TimeoutFired(Now, k, s).conns[k].commands)
  /\ [][/\ \A k \in Surviving :
             /\ conns'[k].sequence_number >= conns[k].sequence_number
             /\ DOMAIN conns'[k].commands \ DOMAIN conns[k].commands
                  = conns[k].sequence_number .. conns'[k].sequence_number - 1
             /\ \A s \in DOMAIN conns[k].commands \cap DOMAIN conns'[k].commands :
                  conns'[k].commands[s] = conns[k].commands[s]
        /\ \A k \in DOMAIN conns \ Objects :
             DOMAIN conns'[k].commands = 0 .. conns'[k].sequence_number - 1]_vars

\* a connection has issued three numbers: the request of number 1 is
\* pending, the probe of number 0 has been answered
C13_Witness ==
  \E k \in Objects :
     /\ conns[k].sequence_number = 3
     /\ 1 \in DOMAIN conns[k].commands
     /\ 0 \notin DOMAIN conns[k].commands
     /\ conns[k].st = "open"


(* ------------------------------- C14 ----------------------------------- *)
\* the step is a start of the dispatcher
Starting == ~running /\ running'

\* the step writes the dispatcher_state file
Saving == state_file' # state_file /\ state_file'.exists

\* the relay connections that have attached and not detached
AttachedRelays ==
  {k \in DOMAIN conns : conns[k].authenticated /\ conns[k].st \in {"open", "closing"}}

\* C14: a start loads what the dispatcher_state file holds, or an empty table
\* when there is none, and deletes the file.  The file is written only by a
\* graceful shutdown, once every relay connection has detached, and holds
\* the table of that moment; it stays as written until the next start.  So
\* the table loaded at a start is the table of the most recent graceful
\* shutdown when no start came in between, and is empty after a crash.
C14_StateFile ==
  /\ [][Starting =>
          /\ sessions' = IF state_file.exists THEN state_file.data ELSE Empty
          /\ ~state_file'.exists]_vars
  /\ [][Saving =>
          /\ running /\ shutting_down'
          /\ ~state_file.exists
          /\ state_file'.data = sessions'
          /\ relays' = Empty
          /\ \A k \in DOMAIN conns : conns'[k].authenticated => conns'[k].st = "closed"]_vars
  /\ [][(state_file.exists /\ ~Starting) => state_file' = state_file]_vars
  /\ []((running /\ ~shutting_down) => ~state_file.exists)

\* the dispatcher has started again after a graceful shutdown and has loaded
\* a table that is not empty
C14_Witness ==
  /\ running
  /\ nstart = 1
  /\ sessions # Empty
  /\ relays = Empty
  /\ ~state_file.exists
  /\ DOMAIN cleanup_timers = {sessions[c].relay_ip : c \in DOMAIN sessions}
  /\ nconn = 1


(* ------------------------------- C15 ----------------------------------- *)
\* the requests in flight on the relay connections
Pending ==
  {p \in (DOMAIN conns) \X (0..MaxReq) : p[2] \in DOMAIN conns[p[1]].commands}

\* the requests the handler that left w took out of the pending tables
Gone(w) == {p \in Pending : p[2] \notin DOMAIN w.conns[p[1]].commands}

\* the handler that left w fired the Deferred of every request it took out
\* of a pending table, once, and no other Deferred
FiredWhatLeft(w) ==
  LET cmdOf(p) == conns[p[1]].commands[p[2]] IN
  /\ Len(w.out.fired) = Cardinality(Gone(w))
  /\ \A p \in Gone(w) :
       Cardinality({i \in DOMAIN w.out.fired : w.out.fired[i] = cmdOf(p)})
         = Cardinality({q \in Gone(w) : cmdOf(q) = cmdOf(p)})

\* C15: every request issued on a relay connection has its waiter completed
\* exactly once, by the matching response, by its timeout or by the close of
\* the connection: no request leaves the pending table without its waiter
\* being completed, whatever the relay answers (the statistics of a remove
\* whose session is already gone included).
C15_WaiterCompletedOnce ==
  \A k \in DOMAIN conns :
     /\ \A s \in DOMAIN conns[k].commands :
          /\ FiredWhatLeft(TimeoutFired(Now, k, s))
          /\ conns[k].st = "open" =>
               \A rest \in RestsFor(conns[k].commands[s].name) :
                  rest.call_id \in {conns[k].commands[s].call_id, None} =>
                     /\ <<k, s>> \in Gone(LineReceivedResponse(Now, k, s, rest))
                     /\ FiredWhatLeft(LineReceivedResponse(Now, k, s, rest))
     /\ conns[k].st \in {"open", "closing"} =>
          \A order \in Orders(DOMAIN conns[k].commands) :
             FiredWhatLeft(TransportConnectionLost(Now, k, order))


(* ------------------------------- C16 ----------------------------------- *)
\* the connections of OpenSIPS that are attached
Ingress == Attached_(protocols)

\* C16: during graceful shutdown the dispatcher closes a connection of
\* OpenSIPS only when it has no request awaiting a reply: in_progress is the
\* number of requests handed to the router and not yet answered; a
\* connection the dispatcher closes (at the shutdown when idle, after the
\* reply otherwise) has none left; RelayFactory.shutdown runs, and closes the
\* relay connections, only when no connection of OpenSIPS is left.
C16_GracefulIngress ==
  /\ [](\A p \in Ingress : protocols[p].in_progress = Len(protocols[p].waiting))
  /\ [][\A p \in Ingress :
          (protocols[p].st = "open" /\ protocols'[p].st = "closing") =>
             /\ control_shutting_down'
             /\ protocols'[p].waiting = <<>>]_vars
  /\ [][(control_shutting_down' /\ ~control_shutting_down) =>
          \A p \in Ingress : protocols[p].waiting = <<>> => protocols'[p].st = "closing"]_vars
  /\ [](shutting_down => (control_shutting_down /\ Ingress = {}))

(* ------------------------------- C17 ----------------------------------- *)
\* C17: on one connection of OpenSIPS the requests are processed one after
\* the other: a request is handed to the router only when no earlier request
\* of the connection awaits its reply, so at most one request of a
\* connection is in flight and the replies are written in the order of the
\* requests.
C17_SerialPerConnection ==
  /\ [](\A p \in Ingress : Len(protocols[p].waiting) <= 1)
  /\ [][\A p \in Ingress :
          Len(protocols'[p].waiting) < Len(protocols[p].waiting) =>
             protocols'[p].waiting = Tail(protocols[p].waiting)]_vars


(* ------------------------------- C18 ----------------------------------- *)
\* the connections whose grace timer is running
GraceTimers == {k \in DOMAIN conns : conns[k].disconnect_timer = "active"}

\* the request s of connection k times out: its waiter fails, and when the
\* connection was not timed out already, timed_out is set and the grace timer
\* started
TimesOut(k, s) ==
  LET w == TimeoutFired(Now, k, s) IN
  /\ w.out.fired = <<conns[k].commands[s]>>
  /\ Gone(w) = {<<k, s>>}
  /\ w.conns[k].timedout
  /\ w.conns[k].disconnect_timer =
       IF conns[k].timedout THEN conns[k].disconnect_timer ELSE "active"
  /\ w.relays = relays /\ w.cleanup_timers = cleanup_timers
  /\ w.sessions = sessions

\* an update without a live session, whatever its media_relay and the
\* shuffle, does not have connection k among its candidates
NotCandidate(k) ==
  \A c \in CallIds : ~Live(Now, c) =>
    \A preferred \in MediaRelays : \A shuffled \in Shuffles(preferred) :
       LET w == FactorySendCommand(Now, "update", c, DialogOf(c), preferred, shuffled) IN
       /\ NewCommands(w, k) = {}
       /\ \A j \in DOMAIN conns : \A s \in NewCommands(w, j) :
            \A i \in DOMAIN w.conns[j].commands[s].try_relays :
               w.conns[j].commands[s].try_relays[i] # k

\* the grace timer of k has fired and the connection is lost: every pending
\* waiter has failed and the grace is over
LostInGrace(w, k) ==
  /\ w.conns[k].commands = Empty
  /\ FiredWhatLeft(w)
  /\ {p \in Gone(w) : p[1] = k} = {k} \X DOMAIN conns[k].commands
  /\ ~w.conns[k].timedout
  /\ w.conns[k].st = "closed"
  /\ w.sessions = sessions

\* C18 as the specification states it, of the registered connections: when
\* the grace timer fires, the pending waiters fail, the connection leaves
\* the registry and a cleanup timer for its address is started.
C18_GraceAlwaysCleans ==
  \A k \in GraceTimers \cap Values(relays) :
     \A order \in Orders(DOMAIN conns[k].commands) :
        LET w == DisconnectTimerFired(Now, k, order) IN
        /\ LostInGrace(w, k)
        /\ conns[k].ip \notin DOMAIN w.relays
        /\ w.cleanup_timers = Put(cleanup_timers, conns[k].ip, "active")

\* C18, amended: a request that times out fails its waiter and, when the
\* connection was not timed out already, sets timed_out and starts the grace
\* timer; a grace timer runs only while timed_out is set, so there is never
\* more than one; a timed-out connection is no candidate for an update
\* without a live session.  When the grace timer fires on a connection that
\* is not closed already, the connection is lost and its pending waiters
\* fail; when it is the registered connection of its address it leaves the
\* registry, and a cleanup timer for the address is started unless the
\* dispatcher is shutting down.
C18_TimeoutGrace ==
  /\ \A p \in Pending : TimesOut(p[1], p[2])
  /\ \A k \in GraceTimers : conns[k].timedout
  /\ \A k \in DOMAIN conns : conns[k].timedout => NotCandidate(k)
  /\ \A k \in GraceTimers : conns[k].st # "closed" =>
       \A order \in Orders(DOMAIN conns[k].commands) :
          LET w == DisconnectTimerFired(Now, k, order) IN
          /\ LostInGrace(w, k)
          /\ IF k \in Values(relays)
             THEN /\ w.relays = Del(relays, conns[k].ip)
                  /\ w.cleanup_timers =
                       IF shutting_down THEN cleanup_timers
                       ELSE Put(cleanup_timers, conns[k].ip, "active")
             ELSE w.relays = relays /\ w.cleanup_timers = cleanup_timers

\* a registered relay is in timed-out grace with a request still pending,
\* another relay is active, and the dispatcher is not shutting down
C18_Witness ==
  \E k \in GraceTimers \cap Values(relays) :
     /\ conns[k].st = "open"
     /\ ~shutting_down
     /\ conns[k].commands # Empty
     /\ ActiveRelays # {}
     /\ \A order \in Orders(DOMAIN conns[k].commands) :
          DisconnectTimerFired(Now, k, order).cleanup_timers
            = Put(cleanup_timers, conns[k].ip, "active")


(* ------------------------------- C19 ----------------------------------- *)
ManagementLines == {"summary", "sessions"}

\* the pending commands that are entries of a DeferredList
Entries == {p \in Pending : conns[p[1]].commands[p[2]].cb = "gather"}

\* the entries of DeferredList id that have not fired
Left(id) == {ip \in DOMAIN lists[id].results : ~lists[id].results[ip].done}

\* what the DeferredList keeps of an entry that failed: the error-status
\* object of _summary_error, or a failure
Failed(r) == r.done /\ (~r.succeeded \/ r.result = SummaryError(None))

\* the items the reply for DeferredList id has from the relay at ip
ItemsOf(w, id, ip) ==
  LET i == CHOOSE j \in DOMAIN w.out.management : w.out.management[j].list = id
  IN SelectSeq(w.out.management[i].items, LAMBDA x : x.ip = ip)

\* a summary or sessions request sends one command of its name to each
\* connection of targets and touches no other connection; it is answered at
\* once only when there is no relay to ask
FannedOutTo(targets) ==
  \A line \in ManagementLines : \A order \in Orders(FanOut(Now)) :
    LET w == ManagementLineReceived(Now, line, nreq + 1, order) IN
    /\ \A k \in Conns :
         IF k \in targets
         THEN /\ Cardinality(NewCommands(w, k)) = 1
              /\ \A s \in NewCommands(w, k) :
                   /\ w.conns[k].commands[s].name = line
                   /\ w.conns[k].commands[s].list = [id |-> nreq + 1, ip |-> conns[k].ip]
              /\ \A s \in DOMAIN conns[k].commands :
                   w.conns[k].commands[s] = conns[k].commands[s]
         ELSE w.conns[k] = conns[k]
    /\ IF targets = {}
       THEN w.out.management = <<[list |-> nreq + 1, name |-> line, items |-> <<>>]>>
       ELSE /\ w.out.management = <<>>
            /\ nreq + 1 \in DOMAIN w.lists
            /\ w.lists[nreq + 1].name = line
            /\ \A k \in targets : ~w.lists[nreq + 1].results[conns[k].ip].done
    /\ w.out.replies = <<>>

\* every DeferredList that has not fired waits for an entry, and each entry
\* it waits for is one pending command
ListsWait ==
  \A id \in DOMAIN lists :
     /\ Left(id) # {}
     /\ \A ip \in Left(id) :
          Cardinality({p \in Entries :
             conns[p[1]].commands[p[2]].list = [id |-> id, ip |-> ip]}) = 1

\* The handler that left w, in which the entries `failures' failed: a
\* DeferredList replies, once, when the last entry it waited for fires in
\* this handler, and not before; in the reply a relay that failed has one
\* error-status object (summary) or nothing (sessions), a relay that
\* answered has its answer (nothing for the sessions answer '[]').
Aggregates(w, failures) ==
  LET cmdOf(p) == conns[p[1]].commands[p[2]] IN
  /\ Len(w.out.management) =
       Cardinality({id \in DOMAIN lists : id \notin DOMAIN w.lists})
  /\ \A id \in DOMAIN lists :
       LET l == lists[id]
           firedNow == {ip \in Left(id) : \E p \in Gone(w) \cap Entries :
                           cmdOf(p).list = [id |-> id, ip |-> ip]}
           failedNow == {ip \in Left(id) : \E p \in Gone(w) \cap failures :
                           cmdOf(p).list = [id |-> id, ip |-> ip]}
           replies == {i \in DOMAIN w.out.management : w.out.management[i].list = id}
       IN IF firedNow = Left(id)
          THEN /\ id \notin DOMAIN w.lists
               /\ Cardinality(replies) = 1
               /\ \A i \in replies : w.out.management[i].name = l.name
               /\ \A ip \in DOMAIN l.results :
                    LET items == ItemsOf(w, id, ip) IN
                    IF ip \in failedNow \/ Failed(l.results[ip])
                    THEN items = IF l.name = "summary"
                                 THEN <<[ip |-> ip, result |-> SummaryError(ip)]>>
                                 ELSE <<>>
                    ELSE /\ Len(items) <= 1
                         /\ l.name = "summary" => Len(items) = 1
                         /\ \A i \in DOMAIN items : items[i].result # SummaryError(ip)
          ELSE /\ id \in DOMAIN w.lists
               /\ replies = {}
               /\ \A ip \in firedNow :
                    /\ w.lists[id].results[ip].done
                    /\ Failed(w.lists[id].results[ip]) <=> ip \in failedNow
               /\ \A ip \in DOMAIN l.results \ firedNow :
                    w.lists[id].results[ip] = l.results[ip]

\* the reply comes when every relay asked has answered or failed, whatever
\* fires the entries: an answer, a timeout or the close of a connection
RepliesWhenAllFired ==
  /\ ListsWait
  /\ \A p \in Pending :
       /\ Aggregates(TimeoutFired(Now, p[1], p[2]), {p})
       /\ conns[p[1]].st = "open" =>
            \A rest \in RestsFor(conns[p[1]].commands[p[2]].name) :
               ~ResponseRaises(Now, conns[p[1]].commands[p[2]], rest) =>
                  Aggregates(LineReceivedResponse(Now, p[1], p[2], rest),
                             IF rest.kind \in {"error", "halting"} THEN {p} ELSE {})
  /\ \A k \in Conns :
       conns[k].st \in {"open", "closing"} =>
          \A order \in Orders(DOMAIN conns[k].commands) :
             Aggregates(TransportConnectionLost(Now, k, order),
                        {p \in Pending : p[1] = k})

\* C19 as the specification states it: a summary or sessions request sends
\* the relay command to exactly the active relays (registered, not halting,
\* not timed out) and to no other connection; the single reply is produced
\* after every one of them has answered or failed; a failing relay
\* contributes one error-status object to the summary reply and nothing to
\* the sessions reply.
C19_ActiveOnly ==
  /\ FannedOutTo(ActiveRelays)
  /\ RepliesWhenAllFired

\* C19, amended: a summary or sessions request sends the relay command to
\* exactly the registered relays, the halting and the timed-out ones
\* included, and to no other connection; the single reply is produced after
\* every one of them has answered or failed; a failing relay contributes one
\* error-status object to the summary reply and nothing to the sessions
\* reply.
C19_Aggregation ==
  /\ FannedOutTo(Values(relays))
  /\ RepliesWhenAllFired

\* a request waits for a registered relay that is timed out or halting,
\* after another relay of the same request has failed
C19_Witness ==
  \E id \in DOMAIN lists :
     /\ \E ip \in DOMAIN lists[id].results : Failed(lists[id].results[ip])
     /\ \E ip \in Left(id) :
          /\ ip \in DOMAIN relays
          /\ ~Active(conns[relays[ip]])
          /\ \E s \in DOMAIN conns[relays[ip]].commands :
               conns[relays[ip]].commands[s].list = [id |-> id, ip |-> ip]


(* ------------------------------- C20 ----------------------------------- *)
\* the expired lines that reach a session without a dialog_id, with a stream
\* that is not an unselected ICE candidate: <<connection, call-id, start_time>>
ExpiredWithoutDialog ==
  {e \in Conns \X CallIds \X BOOLEAN :
     /\ conns[e[1]].st = "open"
     /\ ExpiredReaches(Now, e[1], e[2])
     /\ sessions[e[2]].dialog_id = None}

\* the SIP proxy is not asked to end a dialog
AsksNoEndDialog(w) == \A d \in DialogIds : w.out.end_dialogs[d] = 0

\* C20 as the specification states it: on an expired event for a session
\* that has no dialog_id and whose streams are not all 'unselected ICE
\* candidate', the session is kept in the table with expire_time set, waiting
\* for a remove, rather than being dropped, and the SIP proxy is not asked to
\* end a dialog.
C20_KeptWithoutDialog ==
  \A e \in ExpiredWithoutDialog :
     LET w == ExpiredLine(Now, e[1], e[2], FALSE, e[3]) IN
     /\ e[2] \in DOMAIN w.sessions
     /\ w.sessions[e[2]].expire_time
     /\ AsksNoEndDialog(w)

\* C20, amended: on an expired event for a session that has no dialog_id and
\* whose streams are not all 'unselected ICE candidate', the session is
\* dropped from the table at once, no other session changes, and the SIP
\* proxy is not asked to end a dialog.
C20_DroppedWithoutDialog ==
  \A e \in ExpiredWithoutDialog :
     LET w == ExpiredLine(Now, e[1], e[2], FALSE, e[3]) IN
     /\ w.sessions = Del(sessions, e[2])
     /\ AsksNoEndDialog(w)

\* a live session without a dialog_id on a relay that is connected
C20_Witness ==
  \E e \in ExpiredWithoutDialog : e[3] /\ ~sessions[e[2]].expire_time


(* ------------------------------- C21 ----------------------------------- *)
\* the addresses whose cleanup_dead_relays_after timer is pending
PendingCleanup ==
  {ip \in DOMAIN cleanup_timers : cleanup_timers[ip] = "active"}

\* C21: in every state in which the dispatcher is not shutting down, every
\* session in the table is pinned to an address that has a connection in the
\* registry or a pending cleanup timer, and no address has both a registered
\* connection and a pending cleanup timer.
C21_SessionsCovered ==
  ~shutting_down =>
     /\ \A c \in DOMAIN sessions :
          sessions[c].relay_ip \in DOMAIN relays \cup PendingCleanup
     /\ DOMAIN relays \cap PendingCleanup = {}

\* after a restart, a session whose relay is not connected, kept for the
\* cleanup timer of its address
C21_Witness ==
  /\ running
  /\ nstart > 0
  /\ ~shutting_down
  /\ \E c \in DOMAIN sessions :
       /\ sessions[c].relay_ip \notin DOMAIN relays
       /\ sessions[c].relay_ip \in PendingCleanup


(* ------------------------------- C22 ----------------------------------- *)
\* in this step the answer to an update placed on connection k creates the
\* session c, while the sessions probe sent when k attached is pending
PlacedWhileProbing(k, c) ==
  /\ c \notin DOMAIN sessions
  /\ \E s \in DOMAIN conns[k].commands :
       LET cmd == conns[k].commands[s] IN
       /\ cmd.cb = "place" /\ cmd.name = "update" /\ cmd.call_id = c
       /\ s \notin DOMAIN conns'[k].commands
       /\ c \in DOMAIN sessions'
       /\ sessions'[c] = NewSession(conns[k].ip, cmd.dialog_id)
  /\ \E s \in DOMAIN conns[k].commands :
       /\ conns[k].commands[s].cb = "purge"
       /\ s \in DOMAIN conns'[k].commands
  /\ conns'[k].st = "open"

\* the answer to the probe of connection k, with a list taken before the
\* session c was created, leaves c in the table and ends no dialog
ProbeSpares(k, c) ==
  \A p \in Probes : \A ids \in SUBSET (CallIds \ {c}) :
     p[1] = k =>
        LET w == Response(Now, k, p[2], Rest("list", "json", None, FALSE, ids))
        IN /\ c \in DOMAIN w.sessions
           /\ \A d \in DialogIds : sessions[c].dialog_id = d => w.out.end_dialogs[d] = 0

\* C22: reconciliation after a relay attaches never drops a session that was
\* created on the new connection after the attach: when the answer to an
\* update placed while the sessions probe is pending is processed before the
\* answer to the probe, whose list was taken before the update, the new
\* session is still in the table after the probe's answer is processed and
\* the SIP proxy is not asked to end its dialog.
C22_ProbeSparesNewSession ==
  [][\A k \in Conns : \A c \in CallIds :
       PlacedWhileProbing(k, c) => ProbeSpares(k, c)']_vars


(* ------------------------------- C23 ----------------------------------- *)
\* the initial-placement updates sent to connection j in this step, by
\* sequence number
PlacementsSent(j) ==
  {s \in DOMAIN conns'[j].commands \ DOMAIN conns[j].commands :
     conns'[j].commands[s].cb = "place"}

\* connection j is the one registered for its address, and active.  The
\* handler that sends a placement to j changes neither.
RegisteredAndActive(j) ==
  /\ conns'[j].ip \in DOMAIN relays'
  /\ relays'[conns'[j].ip] = j
  /\ Active(conns'[j])

\* C23: every relay connection that receives an initial-placement update is,
\* at the moment the command is sent to it, the connection registered for
\* its address and active (not halting, not timed out), the second and later
\* candidates of a failover list included, when a later candidate has
\* meanwhile disconnected, been replaced, timed out or announced halting.
C23_PlacementTargets ==
  [][\A j \in Conns : PlacementsSent(j) # {} => RegisteredAndActive(j)]_vars

====
